---------------------------- MODULE Spec2Model ----------------------------
(***************************************************************************)
(* Model of the traversal / retry / merge core of the Spotify data         *)
(* exporter:                                                               *)
(*   - retry_on_api_error          (src/utils/api_utils.py)                *)
(*   - BaseExporter.paginate       (src/exporters/base_exporter.py)        *)
(*   - FollowingExporter.get_followed_artists                              *)
(*                                 (src/exporters/following_exporter.py)   *)
(*   - merge_json_data, _find_id_field (src/utils/file_utils.py)           *)
(*   - BaseExporter.save_data      (src/exporters/base_exporter.py)        *)
(*   - export_all_data             (src/main.py)                           *)
(*   - the command line            (src/cli.py, src/config/settings.py,    *)
(*                                  src/auth/spotify_auth.py)              *)
(***************************************************************************)
EXTENDS Integers, Sequences, FiniteSets, TLC

VARIABLES
    \* ---- retry_on_api_error: parameters and locals ----
    max_retries,      \* parameter max_retries
    delay,            \* parameter delay (an int, seconds)
    backoff_factor,   \* parameter backoff_factor (a float, kept as a rational)
    attempt,          \* local attempt
    current_delay,    \* local current_delay (a float, kept as a rational)
    rpc,              \* position in retry_on_api_error: "idle", "loop", "done"
    outcome,          \* how the call ended: returned value or raised exception
    \* ---- observers of one retry_on_api_error call ----
    hist,             \* results of func(), one per invocation, in order
    sleeps,           \* arguments of time.sleep, in order
    log,              \* records written to the logger, in order
    \* ---- BaseExporter.paginate ----
    pc,               \* position in paginate: "idle", "start", "first", "next", "done", "raised"
    kwargs,           \* **kwargs of paginate
    passed,           \* the keyword arguments the caller of paginate passed
    results,          \* local results
    response,         \* local response
    \* ---- observers of the remote API ----
    requests,         \* the remote calls issued, one per invocation, in order
    served,           \* the pages the API returned, in order
    \* ---- FollowingExporter.get_followed_artists ----
    fpc,              \* position: "idle", "loop", "done", "raised"
    artists,          \* local artists
    after,            \* local after
    \* ---- observers of the followed-artists endpoint ----
    fcalls,           \* the calls of current_user_followed_artists, in order
    fpages,           \* the responses it returned, in order
    fexc,             \* the exception that left get_followed_artists, if any
    \* ---- merge_json_data ----
    mpc,              \* position: "idle", "call", "done"; "recall", "redone" when
                      \* the result is merged with new_data once more
    existing_data,    \* parameter existing_data
    new_data,         \* parameter new_data
    id_field,         \* local id_field
    merged,           \* the returned mapping
    \* ---- an exporter object and the file store ----
    spc,              \* position: "idle", "ready"
    exporter,         \* the exporter: class name, export_dir, export_format
    files,            \* the file store: path -> content
    time,             \* what datetime.now() gives next
    saves,            \* the save_data calls made: arguments, returned path
    \* ---- export_all_data ----
    epc,              \* position: "idle", "setup", an exporter, "report", "done", "aborted"
    export_format,    \* parameter export_format
    started,          \* the exporters whose export() was called, in order
    returned,         \* the exporters whose export() returned, in order
    failed,           \* the exporters whose export() raised
    \* ---- the wrapper rate_limit_decorator puts around get_playlist_tracks ----
    wpc,              \* position: "idle", "loop", "call", "done"
    w_attempt,        \* local attempt of the wrapper's retry_on_api_error
    w_current_delay,  \* its local current_delay
    w_sleeps,         \* the durations it slept
    w_outcome,        \* how the wrapped method ended
    \* ---- the process: modules, environment, cli.main ----
    module_globals,   \* the global names of the modules config.settings,
                      \* auth.spotify_auth, main and cli, as bound so far
    environ,          \* os.environ, its SPOTIFY_* keys
    env_file,         \* the file --env-file names: whether it exists, what it sets
    cpc,              \* position in cli.main: "idle", "check", "parse", "setup",
                      \* "auth", "authenticate", "export", "exporting", "done", "exit"
    args,             \* the parsed command line
    auth_manager      \* the SpotifyAuthManager object

retryVars == <<max_retries, delay, backoff_factor, attempt, current_delay,
               rpc, outcome, hist, sleeps, log>>

pagVars == <<pc, kwargs, passed, results, response, requests, served>>

folVars == <<fpc, artists, after, fcalls, fpages, fexc>>

mergeVars == <<mpc, existing_data, new_data, id_field, merged>>

sinkVars == <<spc, exporter, files, time, saves>>

mainVars == <<epc, export_format, started, returned, failed>>

wrapVars == <<wpc, w_attempt, w_current_delay, w_sleeps, w_outcome>>

cliVars == <<module_globals, environ, env_file, cpc, args, auth_manager>>

\* what neither retry_on_api_error nor paginate touches
otherVars == <<folVars, mergeVars, sinkVars, mainVars, wrapVars, cliVars>>

vars == <<retryVars, pagVars, folVars, mergeVars, sinkVars, mainVars, wrapVars, cliVars>>

-----------------------------------------------------------------------------
(* Bounds of the model.                                                    *)

\* largest max_retries a direct call of retry_on_api_error is given
MaxRetriesBound == 3

\* number of pages the remote API is asked for before the model stops
MaxPages == 3

\* longest data sequence of an Export Record given to merge_json_data
MaxLen == 2

(* Program constants.                                                      *)

API_RETRY_ATTEMPTS == 3
API_RETRY_DELAY == 2
DEFAULT_LIMIT == 50

\* the default of parameter backoff_factor, 2.0
DefaultBackoff == [n |-> 2, d |-> 1]

-----------------------------------------------------------------------------
(* Floats that occur as delays are dyadic rationals; they are kept exactly *)
(* as normalised fractions [n, d] so that int() can truncate them.         *)

RECURSIVE GCD(_, _)
GCD(a, b) == IF b = 0 THEN a ELSE GCD(b, a % b)

Rat(n, d) == LET g == GCD(n, d) IN
             IF g = 0 THEN [n |-> 0, d |-> 1] ELSE [n |-> n \div g, d |-> d \div g]

FromInt(i) == Rat(i, 1)

RatMul(a, b) == Rat(a.n * b.n, a.d * b.d)

\* int(x) for a non-negative float x: truncation
RatTrunc(a) == a.n \div a.d

RECURSIVE RatPow(_, _)
RatPow(a, k) == IF k = 0 THEN FromInt(1) ELSE RatMul(a, RatPow(a, k - 1))

-----------------------------------------------------------------------------
(* int(s) for a string s, kept as a sequence of characters.  Only digit   *)
(* strings occur as parseable hints; anything else raises ValueError.      *)

Digits == <<"0", "1", "2", "3", "4", "5", "6", "7", "8", "9">>

IsDigit(c) == \E i \in 1..10 : Digits[i] = c

DigitVal(c) == (CHOOSE i \in 1..10 : Digits[i] = c) - 1

IsIntLiteral(s) == Len(s) > 0 /\ \A i \in 1..Len(s) : IsDigit(s[i])

RECURSIVE ParseInt(_)
ParseInt(s) == IF Len(s) = 0 THEN 0
               ELSE 10 * ParseInt(SubSeq(s, 1, Len(s) - 1)) + DigitVal(s[Len(s)])

-----------------------------------------------------------------------------
(* The remote call func() and what it can produce.                         *)

\* retry_on_status when the caller passes None
retry_on_status == {429, 500, 502, 503, 504}

\* statuses the modelled API answers with: two retryable, two not
Statuses == {429, 503, 401, 404}

NoHeaders == <<>>

\* the header mappings a SpotifyException carries: none, a parseable
\* Retry-After, an unparseable one (an HTTP date)
HeaderMaps == {NoHeaders,
               [ra \in {"Retry-After"} |-> <<"7">>],
               [ra \in {"Retry-After"} |-> <<"1", "0">>],
               [ra \in {"Retry-After"} |-> <<"W", "e", "d">>]}

\* SpotifyException objects: has_headers is hasattr(e, 'headers')
SpotifyExceptions ==
    {[kind |-> "SpotifyException", http_status |-> s, has_headers |-> TRUE, headers |-> h] :
        s \in Statuses, h \in HeaderMaps}
    \cup
    {[kind |-> "SpotifyException", http_status |-> s, has_headers |-> FALSE, headers |-> NoHeaders] :
        s \in Statuses}

\* any other exception
OtherExceptions == {[kind |-> "Exception"]}

Ok(v) == [kind |-> "ok", value |-> v]

\* how a call ended: not yet, with a value, with an exception
NoOutcome == [kind |-> "none"]
Returned(v) == [kind |-> "return", value |-> v]
Raised(e) == [kind |-> "raise", exc |-> e]

\* values a directly wrapped thunk returns
DirectValues == {"value"}

\* the value of a name that is bound to nothing, and of a function that
\* falls off its end
None == "None"

-----------------------------------------------------------------------------
(* Directories, the environment and the modules' global names.             *)

\* a directory is the sequence of its components, the root "/" first
\* when it is absolute; directory / name
Under(dir, name) == Append(dir, name)

IsAbsolute(dir) == dir # <<>> /\ dir[1] = "/"

\* settings.py lines 9-10: BASE_DIR and EXPORT_DIR = BASE_DIR / "exports"
BASE_DIR == <<"/", "app">>
DefaultExportDir == Under(BASE_DIR, "exports")

\* settings.py lines 45-58: EXPORT_STRUCTURE, built from EXPORT_DIR
ExportStructure(export_dir) ==
    [profile |-> Under(export_dir, "profile"),
     playlists |-> Under(export_dir, "playlists"),
     library |-> [tracks |-> Under(Under(export_dir, "library"), "tracks"),
                  albums |-> Under(Under(export_dir, "library"), "albums")],
     following |-> Under(export_dir, "following"),
     history |-> [recently_played |-> Under(Under(export_dir, "history"), "recently_played"),
                  top_tracks |-> Under(Under(export_dir, "history"), "top_tracks"),
                  top_artists |-> Under(Under(export_dir, "history"), "top_artists")]]

\* os.environ.get(key, default)
EnvGet(env, key, default) == IF key \in DOMAIN env THEN env[key] ELSE default

\* the global names after the imports at cli.py lines 17-19 and main.py
\* lines 13-20: settings.py lines 10, 13-15 and 45-58 are evaluated once,
\* and each "from config.settings import" binds the importing module's own
\* name to the value settings holds then
Imported(env) ==
    LET settings == [EXPORT_DIR |-> DefaultExportDir,
                     EXPORT_STRUCTURE |-> ExportStructure(DefaultExportDir),
                     SPOTIFY_CLIENT_ID |-> EnvGet(env, "SPOTIFY_CLIENT_ID", ""),
                     SPOTIFY_CLIENT_SECRET |-> EnvGet(env, "SPOTIFY_CLIENT_SECRET", ""),
                     SPOTIFY_REDIRECT_URI |-> EnvGet(env, "SPOTIFY_REDIRECT_URI",
                                                     "http://localhost:8888/callback")]
    IN  [settings |-> settings,
         spotify_auth |-> [SPOTIFY_CLIENT_ID |-> settings.SPOTIFY_CLIENT_ID,
                           SPOTIFY_CLIENT_SECRET |-> settings.SPOTIFY_CLIENT_SECRET,
                           SPOTIFY_REDIRECT_URI |-> settings.SPOTIFY_REDIRECT_URI],
         main |-> [EXPORT_DIR |-> settings.EXPORT_DIR,
                   EXPORT_STRUCTURE |-> settings.EXPORT_STRUCTURE],
         cli |-> [EXPORT_DIR |-> settings.EXPORT_DIR]]

\* no environment file
NoEnvFile == [exists |-> FALSE, sets |-> <<>>]

\* no SpotifyAuthManager is constructed
NoAuthManager == [none |-> TRUE]

\* cli.main is not running: the modules are imported in an environment
\* without SPOTIFY_* values
CliIdle ==
    /\ module_globals = Imported(<<>>)
    /\ environ = <<>>
    /\ env_file = NoEnvFile
    /\ cpc = "idle"
    /\ args = <<>>
    /\ auth_manager = NoAuthManager

\* the followed-artists traversal is not running
FollowIdle ==
    /\ fpc = "idle"
    /\ artists = <<>>
    /\ after = "None"
    /\ fcalls = <<>>
    /\ fpages = <<>>
    /\ fexc = NoOutcome

\* merge_json_data is not running
MergeIdle ==
    /\ mpc = "idle"
    /\ existing_data = <<>>
    /\ new_data = <<>>
    /\ id_field = "None"
    /\ merged = <<>>

\* no exporter object, an empty file store
SinkIdle ==
    /\ spc = "idle"
    /\ exporter = <<>>
    /\ files = <<>>
    /\ time = 0
    /\ saves = <<>>

\* export_all_data is not running
MainIdle ==
    /\ epc = "idle"
    /\ export_format = "json"
    /\ started = <<>>
    /\ returned = <<>>
    /\ failed = <<>>

\* no decorated method is running
WrapIdle ==
    /\ wpc = "idle"
    /\ w_attempt = 0
    /\ w_current_delay = FromInt(0)
    /\ w_sleeps = <<>>
    /\ w_outcome = NoOutcome

\* what func() can do on one invocation of a directly wrapped thunk
DirectResults == {Ok(v) : v \in DirectValues} \cup SpotifyExceptions \cup OtherExceptions

-----------------------------------------------------------------------------
(* The remote "list" operation behind paginate.  A page is a mapping with  *)
(* an optional items key and a next link; next = 0 stands for a missing,   *)
(* null or empty link, next = k for the link to page k.                    *)

NoResponse == [none |-> TRUE]

\* the item lists a page carries
PageItemSeqs == {<<>>, <<"a">>, <<"a", "b">>}

\* the pages the API may return when asked for page k
PagesAt(k) ==
    IF k > MaxPages THEN {}
    ELSE {[has_items |-> TRUE, items |-> it, next |-> n] :
              it \in PageItemSeqs, n \in {0, k + 1}}
         \cup
         {[has_items |-> FALSE, items |-> <<>>, next |-> n] : n \in {0, k + 1}}

\* the pages of one playlist's items, as the decorated get_playlist_tracks
\* is given them
TrackPagesAt(k) ==
    IF k > MaxPages THEN {}
    ELSE {[has_items |-> TRUE, items |-> <<"a">>, next |-> n] : n \in {0, k + 1}}

\* the failures a page fetch may end in
PageFailures ==
    {e \in SpotifyExceptions :
        e.has_headers /\ e.headers = NoHeaders /\ e.http_status \in {429, 404}}

\* base_exporter.py line 70 and line 82: the page the thunk asks for
RequestedPage == IF pc = "first" THEN 1 ELSE response.next

\* the remote call the thunk makes, and whether it succeeded
Request(r) == IF pc = "first"
              THEN [op |-> "method", page |-> 1, kwargs |-> kwargs, ok |-> r.kind = "ok"]
              ELSE [op |-> "next", page |-> response.next, kwargs |-> <<>>, ok |-> r.kind = "ok"]

\* what func() can do on one invocation, for the caller at hand
FuncResults ==
    IF rpc # "loop" THEN {}
    ELSE IF pc = "idle" THEN DirectResults
    ELSE IF wpc # "idle"
    THEN {Ok(p) : p \in TrackPagesAt(RequestedPage)} \cup
         (IF TrackPagesAt(RequestedPage) = {} THEN {} ELSE PageFailures)
    ELSE {Ok(p) : p \in PagesAt(RequestedPage)} \cup
         (IF PagesAt(RequestedPage) = {} THEN {} ELSE PageFailures)

\* the thunk was invoked with result r: what the remote API saw and gave
FuncCalled(r) ==
    /\ requests' = IF pc = "idle" THEN requests ELSE Append(requests, Request(r))
    /\ served' = IF pc # "idle" /\ r.kind = "ok" THEN Append(served, r.value) ELSE served
    /\ UNCHANGED <<pc, kwargs, passed, results, response>>
    /\ UNCHANGED otherVars

-----------------------------------------------------------------------------
(* retry_on_api_error                                                      *)


\* lines 67-71: the wait before the next attempt.  The default of the
\* header lookup is current_delay; int() parses a header string and
\* truncates a float.
RetryAfter(e, cd) ==
    LET hinted == e.has_headers /\ "Retry-After" \in DOMAIN e.headers
    IN  IF hinted
        THEN IF IsIntLiteral(e.headers["Retry-After"])
             THEN FromInt(ParseInt(e.headers["Retry-After"]))
             ELSE cd
        ELSE FromInt(RatTrunc(cd))

\* mutant of IsRetryable: every status is retried
IsRetryable_AnyStatus(e) == TRUE

\* line 58: e.http_status in retry_on_status
IsRetryable(e) == e.http_status \in retry_on_status

\* mutant of LastAttempt: one attempt too many
LastAttempt_OneMore(a, mr) == a > mr

\* line 62: attempt >= max_retries, after the increment
LastAttempt(a, mr) == a >= mr

\* mutant of NextDelay: the delay never grows
NextDelay_Constant(cd, bf) == cd

\* line 82: current_delay * backoff_factor
NextDelay(cd, bf) == RatMul(cd, bf)

\* lines 63, 73-76, 85, 89: the log records
LogExhausted(mr, e) == [level |-> "error", what |-> "exhausted", max_retries |-> mr, exc |-> e]
LogRetry(e, a, mr, ra) == [level |-> "warning", what |-> "retry", http_status |-> e.http_status,
                           attempt |-> a, max_retries |-> mr, retry_after |-> ra]
LogFatal(e) == [level |-> "error", what |-> "fatal", http_status |-> e.http_status, exc |-> e]
LogOther(e) == [level |-> "error", what |-> "exception", exc |-> e]

\* mutant of RetryEnter: the attempts and the delay of the previous call
\* carry over
RetryEnter_SharedBudget(mr, d, bf) ==
    /\ max_retries' = mr
    /\ delay' = d
    /\ backoff_factor' = bf
    /\ attempt' = attempt
    /\ current_delay' = IF attempt = 0 THEN FromInt(d) ELSE current_delay
    /\ rpc' = "loop"
    /\ outcome' = NoOutcome
    /\ hist' = <<>>
    /\ sleeps' = <<>>
    /\ log' = <<>>

\* lines 47-51: entry of retry_on_api_error with the given parameters
RetryEnter(mr, d, bf) ==
    /\ max_retries' = mr
    /\ delay' = d
    /\ backoff_factor' = bf
    /\ attempt' = 0
    /\ current_delay' = FromInt(d)
    /\ rpc' = "loop"
    /\ outcome' = NoOutcome
    /\ hist' = <<>>
    /\ sleeps' = <<>>
    /\ log' = <<>>

\* line 55: func() returns, and so does retry_on_api_error
RetryReturn(r) ==
    /\ rpc = "loop" /\ attempt < max_retries
    /\ r.kind = "ok"
    /\ FuncCalled(r)
    /\ hist' = Append(hist, r)
    /\ outcome' = Returned(r.value)
    /\ rpc' = "done"
    /\ UNCHANGED <<max_retries, delay, backoff_factor, attempt, current_delay, sleeps, log>>

\* lines 56-82: a retryable status with attempts left: sleep, back off, loop
RetryBackoff(r) ==
    /\ rpc = "loop" /\ attempt < max_retries
    /\ r.kind = "SpotifyException" /\ IsRetryable(r)
    /\ ~ LastAttempt(attempt + 1, max_retries)
    /\ FuncCalled(r)
    /\ hist' = Append(hist, r)
    /\ attempt' = attempt + 1
    /\ log' = Append(log, LogRetry(r, attempt + 1, max_retries, RetryAfter(r, current_delay)))
    /\ sleeps' = Append(sleeps, RetryAfter(r, current_delay))
    /\ current_delay' = NextDelay(current_delay, backoff_factor)
    /\ UNCHANGED <<max_retries, delay, backoff_factor, rpc, outcome>>

\* lines 56-64: a retryable status on the last attempt: re-raise it
RetryExhausted(r) ==
    /\ rpc = "loop" /\ attempt < max_retries
    /\ r.kind = "SpotifyException" /\ IsRetryable(r)
    /\ LastAttempt(attempt + 1, max_retries)
    /\ FuncCalled(r)
    /\ hist' = Append(hist, r)
    /\ attempt' = attempt + 1
    /\ log' = Append(log, LogExhausted(max_retries, r))
    /\ outcome' = Raised(r)
    /\ rpc' = "done"
    /\ UNCHANGED <<max_retries, delay, backoff_factor, current_delay, sleeps>>

\* lines 83-86: any other status: re-raise at once
RetryFatal(r) ==
    /\ rpc = "loop" /\ attempt < max_retries
    /\ r.kind = "SpotifyException" /\ ~ IsRetryable(r)
    /\ FuncCalled(r)
    /\ hist' = Append(hist, r)
    /\ log' = Append(log, LogFatal(r))
    /\ outcome' = Raised(r)
    /\ rpc' = "done"
    /\ UNCHANGED <<max_retries, delay, backoff_factor, attempt, current_delay, sleeps>>

\* lines 87-90: any other exception: re-raise at once
RetryOther(r) ==
    /\ rpc = "loop" /\ attempt < max_retries
    /\ r.kind = "Exception"
    /\ FuncCalled(r)
    /\ hist' = Append(hist, r)
    /\ log' = Append(log, LogOther(r))
    /\ outcome' = Raised(r)
    /\ rpc' = "done"
    /\ UNCHANGED <<max_retries, delay, backoff_factor, attempt, current_delay, sleeps>>

\* line 53 false on entry: the loop body never runs and the function
\* falls off its end, returning None without calling func
RetryFallThrough ==
    /\ rpc = "loop" /\ ~ (attempt < max_retries)
    /\ outcome' = Returned(None)
    /\ rpc' = "done"
    /\ UNCHANGED <<max_retries, delay, backoff_factor, attempt, current_delay, hist, sleeps, log>>
    /\ UNCHANGED <<pagVars, otherVars>>

-----------------------------------------------------------------------------
(* A direct call of retry_on_api_error over all parameter values.          *)

Delays == {1, 2}

\* 2.0 (the default) and 1.5
BackoffFactors == {Rat(2, 1), Rat(3, 2)}

InitRetry ==
    /\ CliIdle
    /\ max_retries \in 0..MaxRetriesBound
    /\ delay \in Delays
    /\ backoff_factor \in BackoffFactors
    /\ attempt = 0
    /\ current_delay = FromInt(delay)
    /\ rpc = "loop"
    /\ outcome = NoOutcome
    /\ hist = <<>>
    /\ sleeps = <<>>
    /\ log = <<>>
    /\ pc = "idle"
    /\ kwargs = <<>>
    /\ passed = <<>>
    /\ results = <<>>
    /\ response = NoResponse
    /\ requests = <<>>
    /\ served = <<>>
    /\ FollowIdle
    /\ MergeIdle
    /\ SinkIdle
    /\ MainIdle
    /\ WrapIdle

RetryNext ==
    \/ \E r \in FuncResults : RetryReturn(r)
    \/ \E r \in FuncResults : RetryBackoff(r)
    \/ \E r \in FuncResults : RetryExhausted(r)
    \/ \E r \in FuncResults : RetryFatal(r)
    \/ \E r \in FuncResults : RetryOther(r)
    \/ RetryFallThrough

SpecRetry == InitRetry /\ [][RetryNext]_vars

-----------------------------------------------------------------------------
(* BaseExporter.paginate                                                   *)

\* the keyword arguments callers pass: none (library_exporter.py lines 44
\* and 53), a filter only, a limit of their own, and what get_top_items
\* passes with its default limit (history_exporter.py lines 61-77)
KwargsInputs == {<<>>,
                 [k \in {"market"} |-> 7],
                 [k \in {"limit", "market"} |-> IF k = "limit" THEN 20 ELSE 7],
                 [k \in {"limit", "time_range"} |-> IF k = "limit" THEN 50 ELSE 2]}

\* mutant of WithDefaultLimit: the default replaces the caller's limit
WithDefaultLimit_Always(kw) ==
    [k \in DOMAIN kw \cup {"limit"} |-> IF k = "limit" THEN DEFAULT_LIMIT ELSE kw[k]]

\* lines 65-66: the limit is injected when the caller gave none
WithDefaultLimit(kw) ==
    IF "limit" \in DOMAIN kw THEN kw
    ELSE [k \in DOMAIN kw \cup {"limit"} |-> IF k = "limit" THEN DEFAULT_LIMIT ELSE kw[k]]

\* mutant of Extend: the page replaces what was collected
Extend_Overwrite(res, resp) == IF resp.has_items THEN resp.items ELSE res

\* lines 76-77 and 86-87: if 'items' in response: results.extend(...)
Extend(res, resp) == IF resp.has_items THEN res \o resp.items ELSE res

\* mutant of HasNext: a page without an items key ends the traversal
HasNext_NeedsItems(resp) == resp.next # 0 /\ resp.has_items

\* line 80: response.get('next') is truthy
HasNext(resp) == resp.next # 0

\* lines 64-73: set the limit, start with no results, issue the first call
PaginateStart ==
    /\ pc = "start"
    /\ kwargs' = WithDefaultLimit(kwargs)
    /\ results' = <<>>
    /\ pc' = "first"
    /\ RetryEnter(API_RETRY_ATTEMPTS, API_RETRY_DELAY, DefaultBackoff)
    /\ UNCHANGED <<passed, response, requests, served, otherVars>>

\* after a page: line 80 true, lines 81-85 issue the next call; line 80
\* false, line 89 returns
PaginateLoop(resp) ==
    IF HasNext(resp)
    THEN /\ pc' = "next"
         /\ RetryEnter(API_RETRY_ATTEMPTS, API_RETRY_DELAY, DefaultBackoff)
    ELSE /\ pc' = "done"
         /\ rpc' = "idle"
         /\ UNCHANGED <<max_retries, delay, backoff_factor, attempt, current_delay,
                        outcome, hist, sleeps, log>>

\* lines 69-80: the first call returned a page
PaginateFirstPage ==
    /\ pc = "first" /\ rpc = "done" /\ outcome.kind = "return"
    /\ response' = outcome.value
    /\ results' = Extend(results, outcome.value)
    /\ PaginateLoop(outcome.value)
    /\ UNCHANGED <<kwargs, passed, requests, served, otherVars>>

\* lines 81-87, then line 80 again: a next call returned a page
PaginateNextPage ==
    /\ pc = "next" /\ rpc = "done" /\ outcome.kind = "return"
    /\ response' = outcome.value
    /\ results' = Extend(results, outcome.value)
    /\ PaginateLoop(outcome.value)
    /\ UNCHANGED <<kwargs, passed, requests, served, otherVars>>

\* lines 69 and 81: retry_on_api_error raised; paginate has no handler
PaginateRaise ==
    /\ pc \in {"first", "next"} /\ rpc = "done" /\ outcome.kind = "raise"
    /\ pc' = "raised"
    /\ rpc' = "idle"
    /\ UNCHANGED <<max_retries, delay, backoff_factor, attempt, current_delay,
                   outcome, hist, sleeps, log>>
    /\ UNCHANGED <<kwargs, passed, results, response, requests, served, otherVars>>

InitPaginate ==
    /\ CliIdle
    /\ pc = "start"
    /\ kwargs \in KwargsInputs
    /\ passed = kwargs
    /\ results = <<>>
    /\ response = NoResponse
    /\ requests = <<>>
    /\ served = <<>>
    /\ max_retries = 0
    /\ delay = 0
    /\ backoff_factor = DefaultBackoff
    /\ attempt = 0
    /\ current_delay = FromInt(0)
    /\ rpc = "idle"
    /\ outcome = NoOutcome
    /\ hist = <<>>
    /\ sleeps = <<>>
    /\ log = <<>>
    /\ FollowIdle
    /\ MergeIdle
    /\ SinkIdle
    /\ MainIdle
    /\ WrapIdle

PaginateNext ==
    \/ PaginateStart
    \/ PaginateFirstPage
    \/ PaginateNextPage
    \/ PaginateRaise
    \/ \E r \in FuncResults : RetryReturn(r)
    \/ \E r \in FuncResults : RetryBackoff(r)
    \/ \E r \in FuncResults : RetryExhausted(r)
    \/ \E r \in FuncResults : RetryFatal(r)

SpecPaginate == InitPaginate /\ [][PaginateNext]_vars

-----------------------------------------------------------------------------
(* PlaylistExporter.get_playlist_tracks: paginate("playlist_items", ...)   *)
(* under @rate_limit_decorator(), whose wrapper runs retry_on_api_error    *)
(* with the whole method as the thunk.                                     *)

\* api_utils.py line 93: the defaults of rate_limit_decorator
DecoratorRetries == 3
DecoratorDelay == 2

\* playlist_exporter.py line 56: the arguments paginate is given
TracksKwargs == [k \in {"playlist_id"} |-> "p1"]

\* api_utils.py line 55 in the wrapper's retry_on_api_error: the thunk
\* calls get_playlist_tracks, which calls paginate
OuterCall ==
    /\ wpc = "loop" /\ w_attempt < DecoratorRetries
    /\ wpc' = "call"
    /\ pc' = "start"
    /\ kwargs' = TracksKwargs
    /\ passed' = TracksKwargs
    /\ results' = <<>>
    /\ response' = NoResponse
    /\ UNCHANGED <<requests, served>>
    /\ UNCHANGED <<w_attempt, w_current_delay, w_sleeps, w_outcome>>
    /\ UNCHANGED <<retryVars, folVars, mergeVars, sinkVars, mainVars, cliVars>>

\* line 55: paginate returned, and so does the wrapper
OuterReturn ==
    /\ wpc = "call" /\ pc = "done"
    /\ w_outcome' = Returned(results)
    /\ wpc' = "done"
    /\ pc' = "idle"
    /\ UNCHANGED <<kwargs, passed, results, response, requests, served>>
    /\ UNCHANGED <<w_attempt, w_current_delay, w_sleeps>>
    /\ UNCHANGED <<retryVars, folVars, mergeVars, sinkVars, mainVars, cliVars>>

\* lines 56-82: paginate raised a retryable status and the wrapper has
\* attempts left: sleep, back off, call the method again
OuterBackoff ==
    /\ wpc = "call" /\ pc = "raised"
    /\ IsRetryable(outcome.exc)
    /\ ~ LastAttempt(w_attempt + 1, DecoratorRetries)
    /\ w_attempt' = w_attempt + 1
    /\ w_sleeps' = Append(w_sleeps, RetryAfter(outcome.exc, w_current_delay))
    /\ w_current_delay' = NextDelay(w_current_delay, DefaultBackoff)
    /\ wpc' = "loop"
    /\ pc' = "idle"
    /\ UNCHANGED w_outcome
    /\ UNCHANGED <<kwargs, passed, results, response, requests, served>>
    /\ UNCHANGED <<retryVars, folVars, mergeVars, sinkVars, mainVars, cliVars>>

\* lines 56-64: a retryable status on the wrapper's last attempt
OuterExhausted ==
    /\ wpc = "call" /\ pc = "raised"
    /\ IsRetryable(outcome.exc)
    /\ LastAttempt(w_attempt + 1, DecoratorRetries)
    /\ w_attempt' = w_attempt + 1
    /\ w_outcome' = Raised(outcome.exc)
    /\ wpc' = "done"
    /\ pc' = "idle"
    /\ UNCHANGED <<w_current_delay, w_sleeps>>
    /\ UNCHANGED <<kwargs, passed, results, response, requests, served>>
    /\ UNCHANGED <<retryVars, folVars, mergeVars, sinkVars, mainVars, cliVars>>

\* lines 83-86: any other status leaves the wrapper at once
OuterFatal ==
    /\ wpc = "call" /\ pc = "raised"
    /\ ~ IsRetryable(outcome.exc)
    /\ w_outcome' = Raised(outcome.exc)
    /\ wpc' = "done"
    /\ pc' = "idle"
    /\ UNCHANGED <<w_attempt, w_current_delay, w_sleeps>>
    /\ UNCHANGED <<kwargs, passed, results, response, requests, served>>
    /\ UNCHANGED <<retryVars, folVars, mergeVars, sinkVars, mainVars, cliVars>>

InitTracks ==
    /\ CliIdle
    /\ wpc = "loop"
    /\ w_attempt = 0
    /\ w_current_delay = FromInt(DecoratorDelay)
    /\ w_sleeps = <<>>
    /\ w_outcome = NoOutcome
    /\ pc = "idle"
    /\ kwargs = <<>>
    /\ passed = <<>>
    /\ results = <<>>
    /\ response = NoResponse
    /\ requests = <<>>
    /\ served = <<>>
    /\ max_retries = 0
    /\ delay = 0
    /\ backoff_factor = DefaultBackoff
    /\ attempt = 0
    /\ current_delay = FromInt(0)
    /\ rpc = "idle"
    /\ outcome = NoOutcome
    /\ hist = <<>>
    /\ sleeps = <<>>
    /\ log = <<>>
    /\ FollowIdle
    /\ MergeIdle
    /\ SinkIdle
    /\ MainIdle

TracksNext ==
    \/ OuterCall
    \/ OuterReturn
    \/ OuterBackoff
    \/ OuterExhausted
    \/ OuterFatal
    \/ PaginateStart
    \/ PaginateFirstPage
    \/ PaginateNextPage
    \/ PaginateRaise
    \/ \E r \in FuncResults : RetryReturn(r)
    \/ \E r \in FuncResults : RetryBackoff(r)
    \/ \E r \in FuncResults : RetryExhausted(r)
    \/ \E r \in FuncResults : RetryFatal(r)

SpecTracks == InitTracks /\ [][TracksNext]_vars

-----------------------------------------------------------------------------
(* FollowingExporter.get_followed_artists                                  *)

\* artist objects
Artist(i) == [id |-> i]

\* the item lists under artists.items
ArtistSeqs == {<<>>, <<Artist("x")>>, <<Artist("x"), Artist("y")>>,
               <<Artist("y"), Artist("x")>>, <<Artist("z")>>}

\* the responses of current_user_followed_artists: the artists key and its
\* items key may be missing; next is whether artists.next is truthy
FollowResponses ==
    {[has_artists |-> TRUE, has_items |-> TRUE, items |-> it, next |-> n] :
        it \in ArtistSeqs, n \in BOOLEAN}
    \cup
    {[has_artists |-> TRUE, has_items |-> FALSE, items |-> <<>>, next |-> n] : n \in BOOLEAN}
    \cup
    {[has_artists |-> FALSE, has_items |-> FALSE, items |-> <<>>, next |-> FALSE]}

\* following_exporter.py line 40
FollowLimit == 50

\* line 46: response.get('artists', {}).get('items', [])
NestedItems(resp) == IF resp.has_artists /\ resp.has_items THEN resp.items ELSE <<>>

\* line 50: response.get('artists', {}).get('next') is truthy
NestedNext(resp) == resp.has_artists /\ resp.next

\* mutant of LastId: the cursor is the first item's id
LastId_First(items) == items[1].id

\* line 55: items[-1]['id']
LastId(items) == items[Len(items)].id

\* line 43: the call, as the endpoint sees it
FollowCall(ok) == [limit |-> FollowLimit, after |-> after, ok |-> ok]

\* the frame of one loop iteration
FollowFrame == UNCHANGED <<retryVars, pagVars, mergeVars, sinkVars, mainVars, wrapVars, cliVars>>

\* lines 43-51: a response without a next link: take its items and return
FollowLastPage(resp) ==
    /\ fpc = "loop" /\ Len(fcalls) < MaxPages
    /\ ~ NestedNext(resp)
    /\ fcalls' = Append(fcalls, FollowCall(TRUE))
    /\ fpages' = Append(fpages, resp)
    /\ artists' = artists \o NestedItems(resp)
    /\ fpc' = "done"
    /\ UNCHANGED <<after, fexc>>
    /\ FollowFrame

\* lines 43-55: a next link and items: move the cursor and loop
FollowAdvance(resp) ==
    /\ fpc = "loop" /\ Len(fcalls) < MaxPages
    /\ NestedNext(resp) /\ NestedItems(resp) # <<>>
    /\ fcalls' = Append(fcalls, FollowCall(TRUE))
    /\ fpages' = Append(fpages, resp)
    /\ artists' = artists \o NestedItems(resp)
    /\ after' = LastId(NestedItems(resp))
    /\ UNCHANGED <<fpc, fexc>>
    /\ FollowFrame

\* mutant of FollowEmptyPage: an empty page with a next link is followed
FollowEmptyPage_KeepsGoing(resp) ==
    /\ fpc = "loop" /\ Len(fcalls) < MaxPages
    /\ NestedNext(resp) /\ NestedItems(resp) = <<>>
    /\ fcalls' = Append(fcalls, FollowCall(TRUE))
    /\ fpages' = Append(fpages, resp)
    /\ artists' = artists \o NestedItems(resp)
    /\ UNCHANGED <<fpc, after, fexc>>
    /\ FollowFrame

\* lines 43-57: a next link but no items: return
FollowEmptyPage(resp) ==
    /\ fpc = "loop" /\ Len(fcalls) < MaxPages
    /\ NestedNext(resp) /\ NestedItems(resp) = <<>>
    /\ fcalls' = Append(fcalls, FollowCall(TRUE))
    /\ fpages' = Append(fpages, resp)
    /\ artists' = artists \o NestedItems(resp)
    /\ fpc' = "done"
    /\ UNCHANGED <<after, fexc>>
    /\ FollowFrame

\* line 43 raises: the call is not wrapped, the exception leaves the method
FollowRaise(e) ==
    /\ fpc = "loop" /\ Len(fcalls) < MaxPages
    /\ fcalls' = Append(fcalls, FollowCall(FALSE))
    /\ fpc' = "raised"
    /\ fexc' = Raised(e)
    /\ UNCHANGED <<artists, after, fpages>>
    /\ FollowFrame

InitFollow ==
    /\ CliIdle
    /\ fpc = "loop"
    /\ artists = <<>>
    /\ after = "None"
    /\ fcalls = <<>>
    /\ fpages = <<>>
    /\ fexc = NoOutcome
    /\ pc = "idle"
    /\ kwargs = <<>>
    /\ passed = <<>>
    /\ results = <<>>
    /\ response = NoResponse
    /\ requests = <<>>
    /\ served = <<>>
    /\ max_retries = 0
    /\ delay = 0
    /\ backoff_factor = DefaultBackoff
    /\ attempt = 0
    /\ current_delay = FromInt(0)
    /\ rpc = "idle"
    /\ outcome = NoOutcome
    /\ hist = <<>>
    /\ sleeps = <<>>
    /\ log = <<>>
    /\ MergeIdle
    /\ SinkIdle
    /\ MainIdle
    /\ WrapIdle

FollowNext ==
    \/ \E resp \in FollowResponses : FollowLastPage(resp)
    \/ \E resp \in FollowResponses : FollowAdvance(resp)
    \/ \E resp \in FollowResponses : FollowEmptyPage(resp)
    \/ \E e \in PageFailures : FollowRaise(e)

SpecFollow == InitFollow /\ [][FollowNext]_vars

-----------------------------------------------------------------------------
(* merge_json_data and _find_id_field.  A mapping is a function on the     *)
(* set of its keys, <<>> is the empty mapping.  A data value is tagged     *)
(* with whether it is a list, as isinstance(x, list) tells.                *)

ListData(items) == [list |-> TRUE, items |-> items]

\* a data value that is no list: a mapping such as a profile
ObjData(o) == [list |-> FALSE, obj |-> o]

\* the items of the data sequences
DataItems == {[id |-> "1", v |-> "a"],
              [id |-> "1", v |-> "b"],
              [id |-> "2", uri |-> "u1", v |-> "c"],
              [uri |-> "u1", href |-> "h1"],
              [href |-> "h1"],
              [v |-> "a"]}

DataSeqs == UNION {[1..n -> DataItems] : n \in 0..MaxLen}

DataValues == {ListData(q) : q \in DataSeqs} \cup {ObjData("profile"), ObjData("stats")}

\* metadata of a record written earlier: plain, or without export_date
\* and with a field of an earlier merge
ExistingMetadata == {[export_date |-> "t1", export_type |-> "PlaylistExporter"],
                     [export_type |-> "PlaylistExporter", update_date |-> "t0"]}

\* metadata of a fresh record, with or without export_date
NewMetadata == {[export_date |-> "t2", export_type |-> "LibraryExporter"],
                [export_type |-> "LibraryExporter"]}

\* Export Records: each of the keys metadata and data may be missing
RecordsOf(metas) ==
    {[metadata |-> m, data |-> d] : m \in metas, d \in DataValues}
    \cup {[data \in {"data"} |-> d] : d \in DataValues}
    \cup {[metadata \in {"metadata"} |-> m] : m \in metas}
    \cup {<<>>}

\* the values datetime.now().isoformat() may give during the call
Clock == {"now"}

\* mapping.get(key, default)
Get(mapping, key, default) == IF key \in DOMAIN mapping THEN mapping[key] ELSE default

\* file_utils.py line 151
id_fields == <<"id", "uri", "href">>

\* lines 155-157: the first of id_fields that is a key of item, or None
FirstIdFieldOf(item) ==
    LET found == {i \in 1..Len(id_fields) : id_fields[i] \in DOMAIN item}
    IN  IF found = {} THEN "None"
        ELSE id_fields[CHOOSE i \in found : \A j \in found : i <= j]

\* mutant of FindIdField: the fields are tried one after the other over
\* all items
FindIdField_FieldMajor(data_list) ==
    LET found == {i \in 1..Len(id_fields) :
                     \E j \in 1..Len(data_list) : id_fields[i] \in DOMAIN data_list[j]}
    IN  IF found = {} THEN "None"
        ELSE id_fields[CHOOSE i \in found : \A j \in found : i <= j]

\* lines 147-159: _find_id_field
RECURSIVE FindIdField(_)
FindIdField(data_list) ==
    IF data_list = <<>> THEN "None"
    ELSE IF FirstIdFieldOf(Head(data_list)) # "None"
         THEN FirstIdFieldOf(Head(data_list))
         ELSE FindIdField(Tail(data_list))

\* line 114: the identifiers of the existing items that have the field
ExistingIds(items, f) == {items[i][f] : i \in {j \in 1..Len(items) : f \in DOMAIN items[j]}}

\* mutant of IsAppended: an item without the field is dropped
IsAppended_NeedsField(item, f, existing_ids) == f \in DOMAIN item /\ item[f] \notin existing_ids

\* line 119: the new item is appended
IsAppended(item, f, existing_ids) == f \notin DOMAIN item \/ item[f] \notin existing_ids

\* mutant of MergeById: every new item is appended
MergeById_AppendAll(old, new, f) == old \o new

\* lines 117-120: the existing items, then the new items that are appended
MergeById(old, new, f) ==
    old \o SelectSeq(new, LAMBDA item : IsAppended(item, f, ExistingIds(old, f)))

\* mutant of ConcatData: a new item equal to an item already there is left out
ConcatData_Distinct(old, new) ==
    old \o SelectSeq(new, LAMBDA item : \A i \in 1..Len(old) : old[i] # item)

\* line 123: existing_data["data"] + new_data["data"]
ConcatData(old, new) == old \o new

\* mutant of TakeNew: the existing data is kept
TakeNew_KeepsExisting(old, new) == old

\* line 126: merged_data = new_data["data"]
TakeNew(old, new) == new

\* mutant of MergedMetadata: the copy is taken of the new metadata
MergedMetadata_FromNew(existing, new, now) ==
    IF "metadata" \in DOMAIN existing /\ "metadata" \in DOMAIN new
    THEN [k \in DOMAIN new.metadata \cup {"update_date", "previous_export_date"} |->
             IF k = "previous_export_date" THEN Get(existing.metadata, "export_date", "None")
             ELSE IF k = "update_date" THEN Get(new.metadata, "export_date", now)
             ELSE new.metadata[k]]
    ELSE Get(new, "metadata", <<>>)

\* lines 98-103: the merged metadata
MergedMetadata(existing, new, now) ==
    IF "metadata" \in DOMAIN existing /\ "metadata" \in DOMAIN new
    THEN [k \in DOMAIN existing.metadata \cup {"update_date", "previous_export_date"} |->
             IF k = "previous_export_date" THEN Get(existing.metadata, "export_date", "None")
             ELSE IF k = "update_date" THEN Get(new.metadata, "export_date", now)
             ELSE existing.metadata[k]]
    ELSE Get(new, "metadata", <<>>)

\* line 111: id_field, where the lists are merged
IdFieldOf(existing, new) ==
    IF /\ "data" \in DOMAIN existing /\ "data" \in DOMAIN new
       /\ existing.data.list /\ new.data.list
    THEN FindIdField(existing.data.items)
    ELSE "None"

\* lines 106-128: the merged data
MergedData(existing, new) ==
    IF "data" \in DOMAIN existing /\ "data" \in DOMAIN new
    THEN IF existing.data.list /\ new.data.list
         THEN IF FindIdField(existing.data.items) # "None"
              THEN ListData(MergeById(existing.data.items, new.data.items,
                                      FindIdField(existing.data.items)))
              ELSE ListData(ConcatData(existing.data.items, new.data.items))
         ELSE TakeNew(existing.data, new.data)
    ELSE Get(new, "data", ObjData("{}"))

(* The objects the call writes to.  existing_data["data"] and              *)
(* existing_data["metadata"] are objects of the caller; a write through    *)
(* another name of the same object shows in the caller's record.           *)

\* mutant of ListCopy: the name is bound to the list itself
ListCopy_SameObject(obj) == obj

\* line 117: list.copy() gives a new list object
ListCopy(obj) == "merged_data"

\* line 99: {**mapping} gives a new dict object
DictCopy(obj) == "merged_metadata"

\* lines 117-120: the list object the appends go to, if any are made
AppendsTo(existing, new) ==
    IF IdFieldOf(existing, new) # "None" THEN ListCopy("existing_data.data") ELSE "no object"

\* lines 99-101: the dict object the two dates are assigned in, if they are
AssignsTo(existing, new) ==
    IF "metadata" \in DOMAIN existing /\ "metadata" \in DOMAIN new
    THEN DictCopy("existing_data.metadata") ELSE "no object"

\* the caller's record after the call: its object obj, held under key,
\* has the value the call built if the call's writes went to obj
AfterWrites(record, key, obj, target, value) ==
    IF target = obj /\ key \in DOMAIN record THEN [record EXCEPT ![key] = value] ELSE record

\* lines 86-133: merge_json_data.  No statement of it writes through
\* new_data, and none opens a file.
MergeJsonData(now) ==
    /\ mpc \in {"call", "recall"}
    /\ id_field' = IdFieldOf(existing_data, new_data)
    /\ merged' = [metadata |-> MergedMetadata(existing_data, new_data, now),
                  data |-> MergedData(existing_data, new_data)]
    /\ mpc' = IF mpc = "call" THEN "done" ELSE "redone"
    /\ existing_data' =
          AfterWrites(AfterWrites(existing_data, "data", "existing_data.data",
                                  AppendsTo(existing_data, new_data),
                                  MergedData(existing_data, new_data)),
                      "metadata", "existing_data.metadata",
                      AssignsTo(existing_data, new_data),
                      MergedMetadata(existing_data, new_data, now))
    /\ UNCHANGED new_data
    /\ UNCHANGED <<retryVars, pagVars, folVars, sinkVars, mainVars, wrapVars, cliVars>>

InitMerge ==
    /\ CliIdle
    /\ mpc = "call"
    /\ existing_data \in RecordsOf(ExistingMetadata)
    /\ new_data \in RecordsOf(NewMetadata)
    /\ id_field = "None"
    /\ merged = <<>>
    /\ FollowIdle
    /\ SinkIdle
    /\ MainIdle
    /\ WrapIdle
    /\ pc = "idle"
    /\ kwargs = <<>>
    /\ passed = <<>>
    /\ results = <<>>
    /\ response = NoResponse
    /\ requests = <<>>
    /\ served = <<>>
    /\ max_retries = 0
    /\ delay = 0
    /\ backoff_factor = DefaultBackoff
    /\ attempt = 0
    /\ current_delay = FromInt(0)
    /\ rpc = "idle"
    /\ outcome = NoOutcome
    /\ hist = <<>>
    /\ sleeps = <<>>
    /\ log = <<>>

MergeNext == \E now \in Clock : MergeJsonData(now)

SpecMerge == InitMerge /\ [][MergeNext]_vars

-----------------------------------------------------------------------------
(* merge_json_data applied twice: the record a first call returned is      *)
(* merged with the same new record again.                                  *)

\* the items of the data sequences merged twice: with an id, and without
RemergeItems == {[id |-> "1", v |-> "a"],
                 [id |-> "1", v |-> "b"],
                 [id |-> "2", uri |-> "u1", v |-> "c"],
                 [uri |-> "u1", href |-> "h1"]}

RemergeSeqs == UNION {[1..n -> RemergeItems] : n \in 0..MaxLen}

\* merge_json_data(merge_json_data(E, N), N): the returned record is the
\* existing_data of a second call with the same new_data
Remerge ==
    /\ mpc = "done"
    /\ existing_data' = merged
    /\ mpc' = "recall"
    /\ UNCHANGED <<new_data, id_field, merged>>
    /\ UNCHANGED <<retryVars, pagVars, folVars, sinkVars, mainVars, wrapVars, cliVars>>

InitRemerge ==
    /\ CliIdle
    /\ mpc = "call"
    /\ existing_data \in {[metadata |-> [export_date |-> "t1", export_type |-> "PlaylistExporter"],
                           data |-> ListData(q)] : q \in RemergeSeqs}
    /\ new_data \in {[metadata |-> [export_date |-> "t2", export_type |-> "PlaylistExporter"],
                      data |-> ListData(q)] : q \in RemergeSeqs}
    /\ id_field = "None"
    /\ merged = <<>>
    /\ FollowIdle
    /\ SinkIdle
    /\ MainIdle
    /\ WrapIdle
    /\ pc = "idle"
    /\ kwargs = <<>>
    /\ passed = <<>>
    /\ results = <<>>
    /\ response = NoResponse
    /\ requests = <<>>
    /\ served = <<>>
    /\ max_retries = 0
    /\ delay = 0
    /\ backoff_factor = DefaultBackoff
    /\ attempt = 0
    /\ current_delay = FromInt(0)
    /\ rpc = "idle"
    /\ outcome = NoOutcome
    /\ hist = <<>>
    /\ sleeps = <<>>
    /\ log = <<>>

RemergeNext ==
    \/ \E now \in Clock : MergeJsonData(now)
    \/ Remerge

SpecRemerge == InitRemerge /\ [][RemergeNext]_vars

-----------------------------------------------------------------------------
(* BaseExporter.save_data, save_to_json and save_to_csv.  A value is       *)
(* tagged with its type, as isinstance tells; a dict is the sequence of    *)
(* its entries in insertion order.                                         *)

Str(x) == [t |-> "str", s |-> x]
Dict(entries) == [t |-> "dict", m |-> entries]
List(elems) == [t |-> "list", l |-> elems]

Entry(key, val) == [k |-> key, v |-> val]

\* isinstance(v, (dict, list))
IsComposite(val) == val.t \in {"dict", "list"}

\* key in mapping
HasKey(m, key) == \E i \in 1..Len(m) : m[i].k = key

\* mapping[key]
Lookup(m, key) == m[CHOOSE i \in 1..Len(m) : m[i].k = key].v

\* mapping[key] = val: a key that is there keeps its place
Put(m, key, val) ==
    IF HasKey(m, key)
    THEN [i \in 1..Len(m) |-> IF m[i].k = key THEN Entry(key, val) ELSE m[i]]
    ELSE Append(m, Entry(key, val))

\* {**m, **n}
RECURSIVE Spread(_, _)
Spread(m, n) ==
    IF n = <<>> THEN m ELSE Spread(Put(m, Head(n).k, Head(n).v), Tail(n))

\* the number of save_data calls the model makes
MaxSaves == 2

\* paths: the directory, the file name without extension, the extension
PathOf(dir, stem, ext) == [dir |-> dir, stem |-> stem, ext |-> ext]

\* a file name as callers pass it: a bare name, or str(directory / name)
BareName(stem) == [abs |-> FALSE, dir |-> <<>>, stem |-> stem]
FullName(dir, stem) == [abs |-> IsAbsolute(dir), dir |-> dir, stem |-> stem]

\* lines 102 and 129: self.export_dir / f"{filename}.ext"; joining an
\* absolute path gives that path
JoinPath(export_dir, filename, ext) ==
    IF filename.abs THEN PathOf(filename.dir, filename.stem, ext)
    ELSE PathOf(export_dir \o filename.dir, filename.stem, ext)

\* line 37: export_format.lower()
Lower(fmt) == IF fmt = "CSV" THEN "csv" ELSE IF fmt = "JSON" THEN "json" ELSE fmt

\* lines 35-37: the exporter object
NewExporter(cls, export_dir, fmt) ==
    [cls |-> cls, export_dir |-> export_dir, export_format |-> Lower(fmt)]

\* lines 105-111: the Export Record
DataWithMeta(cls, now, data) ==
    [metadata |-> [export_date |-> now, export_type |-> cls], data |-> data]

\* mutant of DumpTo: the document is added to what the file holds
DumpTo_Append(store, path, doc) ==
    [q \in DOMAIN store \cup {path} |->
        IF q = path
        THEN IF path \in DOMAIN store /\ store[path].fmt = "json"
             THEN [fmt |-> "json", docs |-> Append(store[path].docs, doc)]
             ELSE [fmt |-> "json", docs |-> <<doc>>]
        ELSE store[q]]

\* lines 113-114: open(filepath, 'w') and json.dump: the file holds the
\* one document, whatever it held
DumpTo(store, path, doc) ==
    [q \in DOMAIN store \cup {path} |->
        IF q = path THEN [fmt |-> "json", docs |-> <<doc>>] ELSE store[q]]

\* lines 132: the columns of DataFrame(rows): the keys in first-seen order
RECURSIVE ColumnsOf(_, _)
ColumnsOf(cols, rows) ==
    IF rows = <<>> THEN cols
    ELSE LET row == Head(rows)
             fresh == SelectSeq([i \in 1..Len(row) |-> row[i].k],
                                LAMBDA c : \A j \in 1..Len(cols) : cols[j] # c)
         IN  ColumnsOf(cols \o fresh, Tail(rows))

\* lines 135-139: a cell as written: a dict or list as its JSON text, a
\* missing value as the empty cell, anything else as it is
CellOf(row, col) ==
    IF ~ HasKey(row, col) THEN [t |-> "empty"]
    ELSE IF IsComposite(Lookup(row, col)) THEN [t |-> "json", of |-> Lookup(row, col)]
    ELSE Lookup(row, col)

\* lines 132-139: the table written for the rows
TableOf(rows) ==
    LET cols == ColumnsOf(<<>>, rows)
    IN  [fmt |-> "csv",
         columns |-> cols,
         rows |-> [i \in 1..Len(rows) |-> [j \in 1..Len(cols) |-> CellOf(rows[i], cols[j])]]]

\* line 139: df.to_csv(filepath)
ToCsv(store, path, table) ==
    [q \in DOMAIN store \cup {path} |-> IF q = path THEN table ELSE store[q]]

\* line 161: one row of a mapping with a dict or list among its values
RowOf(entry) ==
    IF entry.v.t = "dict"
    THEN Spread(<<Entry("key", Str(entry.k))>>, entry.v.m)
    ELSE <<Entry("key", Str(entry.k)), Entry("value", entry.v)>>

\* lines 155-162: the rows a CSV export is given
CsvRows(data) ==
    IF data.t = "dict"
    THEN IF \A i \in 1..Len(data.m) : ~ IsComposite(data.m[i].v)
         THEN <<data.m>>
         ELSE [i \in 1..Len(data.m) |-> RowOf(data.m[i])]
    ELSE [i \in 1..Len(data.l) |-> data.l[i].m]

\* the nested mappings and the data values of the modelled exports
TrackA == Dict(<<Entry("name", Str("A")), Entry("playedAt", Str("t1"))>>)
TrackKeyed == Dict(<<Entry("key", Str("C")), Entry("name", Str("A"))>>)
Item1 == Dict(<<Entry("id", Str("1")), Entry("name", Str("A"))>>)
Item2 == Dict(<<Entry("id", Str("2")), Entry("album", TrackA)>>)

SaveDataInputs ==
    {List(<<>>), List(<<Item1>>), List(<<Item1, Item2>>),
     Dict(<<Entry("id", Str("u")), Entry("name", Str("N"))>>),
     Dict(<<Entry("t1", TrackA)>>),
     Dict(<<Entry("t1", TrackA), Entry("t2", Str("s"))>>),
     Dict(<<Entry("t2", Str("s")), Entry("t1", TrackA)>>),
     Dict(<<Entry("t1", TrackKeyed)>>),
     Dict(<<Entry("t1", List(<<Str("x")>>))>>)}

FilenameInputs == {BareName("profile"),
                   FullName(ExportStructure(DefaultExportDir).history.top_tracks, "top")}

\* lines 102, 129, 153: the path save_data writes and returns
SavePath(exp, filename) ==
    JoinPath(exp.export_dir, filename, IF exp.export_format = "csv" THEN "csv" ELSE "json")

\* lines 142-166 with lines 91-140: the file store after save_data
Saved(exp, store, now, data, filename) ==
    IF exp.export_format = "csv"
    THEN ToCsv(store, SavePath(exp, filename), TableOf(CsvRows(data)))
    ELSE DumpTo(store, SavePath(exp, filename), DataWithMeta(exp.cls, now, data))

\* lines 142-166 with lines 91-140: save_data
SaveData(data, filename) ==
    /\ spc = "ready" /\ Len(saves) < MaxSaves
    /\ files' = Saved(exporter, files, time, data, filename)
    /\ saves' = Append(saves, [data |-> data, filename |-> filename,
                               path |-> SavePath(exporter, filename), before |-> files])
    /\ time' = time + 1
    /\ UNCHANGED <<spc, exporter>>
    /\ UNCHANGED <<retryVars, pagVars, folVars, mergeVars, mainVars, wrapVars, cliVars>>

ExporterInputs ==
    {NewExporter(c.cls, c.dir, f) :
        c \in {[cls |-> "ProfileExporter", dir |-> ExportStructure(DefaultExportDir).profile],
               [cls |-> "HistoryExporter", dir |-> Under(DefaultExportDir, "history")]},
        f \in {"json", "csv", "CSV"}}

InitSink ==
    /\ CliIdle
    /\ spc = "ready"
    /\ exporter \in ExporterInputs
    /\ files = <<>>
    /\ time = 0
    /\ saves = <<>>
    /\ FollowIdle
    /\ MergeIdle
    /\ MainIdle
    /\ WrapIdle
    /\ pc = "idle"
    /\ kwargs = <<>>
    /\ passed = <<>>
    /\ results = <<>>
    /\ response = NoResponse
    /\ requests = <<>>
    /\ served = <<>>
    /\ max_retries = 0
    /\ delay = 0
    /\ backoff_factor = DefaultBackoff
    /\ attempt = 0
    /\ current_delay = FromInt(0)
    /\ rpc = "idle"
    /\ outcome = NoOutcome
    /\ hist = <<>>
    /\ sleeps = <<>>
    /\ log = <<>>

SinkNext == \E data \in SaveDataInputs, filename \in FilenameInputs : SaveData(data, filename)

SpecSink == InitSink /\ [][SinkNext]_vars

-----------------------------------------------------------------------------
(* main.export_all_data.  An exporter's export() is a sequence of units,   *)
(* each a fetch followed by save_data; a unit whose fetch or save raises   *)
(* ends export() with that exception.                                      *)

\* main.py lines 51-95: the order of the exporters
ExporterOrder == <<"profile", "playlists", "library", "following", "history">>

\* lines 53-57, 62-67, 72-76, 81-85, 90-94: the exporter objects
ExporterFor(name, fmt) ==
    LET EXPORT_DIR == module_globals.main.EXPORT_DIR
        EXPORT_STRUCTURE == module_globals.main.EXPORT_STRUCTURE
    IN  IF name = "profile" THEN NewExporter("ProfileExporter", EXPORT_STRUCTURE.profile, fmt)
        ELSE IF name = "playlists"
        THEN NewExporter("PlaylistExporter", EXPORT_STRUCTURE.playlists, fmt)
        ELSE IF name = "library"
        THEN NewExporter("LibraryExporter", Under(EXPORT_DIR, "library"), fmt)
        ELSE IF name = "following"
        THEN NewExporter("FollowingExporter", EXPORT_STRUCTURE.following, fmt)
        ELSE NewExporter("HistoryExporter", Under(EXPORT_DIR, "history"), fmt)

Unit(data, filename) == [data |-> data, filename |-> filename]

Playlist(id) == Dict(<<Entry("id", Str(id)), Entry("name", Str("P"))>>)

\* the playlists current_user_playlists gives
PlaylistSeqs == {<<>>, <<Playlist("p1")>>, <<Playlist("p1"), Playlist("p2")>>}

\* playlist_exporter.py line 101: f"playlist_{playlist_id}_tracks"
TracksStem(playlist) ==
    IF Lookup(playlist.m, "id") = Str("p1") THEN "playlist_p1_tracks" ELSE "playlist_p2_tracks"

ProfileData == Dict(<<Entry("id", Str("u")), Entry("name", Str("N"))>>)

\* the units of each export(): profile_exporter.py 48-51,
\* playlist_exporter.py 68-102, library_exporter.py 65-91,
\* following_exporter.py 71-74, history_exporter.py 89-161
UnitsOf(name, playlists) ==
    LET self_dir == ExporterFor(name, "json").export_dir
        tracks_dir == Under(self_dir, "tracks")
        albums_dir == Under(self_dir, "albums")
        recently_played_dir == Under(self_dir, "recently_played")
        top_tracks_dir == Under(self_dir, "top_tracks")
        top_artists_dir == Under(self_dir, "top_artists")
    IN  IF name = "profile" THEN <<Unit(ProfileData, BareName("profile"))>>
        ELSE IF name = "playlists"
        THEN <<Unit(List(playlists), BareName("playlists"))>> \o
             [i \in 1..Len(playlists) |->
                 Unit(List(<<>>), FullName(tracks_dir, TracksStem(playlists[i])))]
        ELSE IF name = "library"
        THEN <<Unit(List(<<>>), FullName(tracks_dir, "saved_tracks")),
               Unit(List(<<>>), FullName(albums_dir, "saved_albums"))>>
        ELSE IF name = "following" THEN <<Unit(List(<<>>), BareName("followed_artists"))>>
        ELSE <<Unit(List(<<>>), FullName(recently_played_dir, "recently_played")),
               Unit(List(<<>>), FullName(top_tracks_dir, "top_tracks_short_term")),
               Unit(List(<<>>), FullName(top_tracks_dir, "top_tracks_medium_term")),
               Unit(List(<<>>), FullName(top_tracks_dir, "top_tracks_long_term")),
               Unit(List(<<>>), FullName(top_artists_dir, "top_artists_short_term")),
               Unit(List(<<>>), FullName(top_artists_dir, "top_artists_medium_term")),
               Unit(List(<<>>), FullName(top_artists_dir, "top_artists_long_term"))>>

\* the file store, the clock and the save_data calls after the units ran
RECURSIVE RunUnits(_, _, _)
RunUnits(exp, units, st) ==
    IF units = <<>> THEN st
    ELSE RunUnits(exp, Tail(units),
                  [files |-> Saved(exp, st.files, st.time, Head(units).data, Head(units).filename),
                   time |-> st.time + 1,
                   saves |-> Append(st.saves,
                                    [data |-> Head(units).data, filename |-> Head(units).filename,
                                     path |-> SavePath(exp, Head(units).filename),
                                     before |-> st.files])])

\* the position after the exporter at this position returned
NextPosition(name) ==
    IF name = "setup" THEN "profile"
    ELSE IF name = "history" THEN "report"
    ELSE ExporterOrder[1 + CHOOSE i \in 1..Len(ExporterOrder) : ExporterOrder[i] = name]

\* mutant of AfterRaise: the error is swallowed and the run goes on
AfterRaise_Continue(name) == NextPosition(name)

\* lines 49-117 have no handler: an exception leaves export_all_data
AfterRaise(name) == "aborted"

\* line 49: setup_export_directories()
SetupDirectories(ok) ==
    /\ epc = "setup"
    /\ epc' = IF ok THEN NextPosition("setup") ELSE AfterRaise("setup")
    /\ UNCHANGED <<export_format, started, returned, failed>>
    /\ UNCHANGED <<retryVars, pagVars, folVars, mergeVars, sinkVars, wrapVars, cliVars>>

\* one exporter is constructed and its export() called; with fail_at = 0
\* every unit succeeds, otherwise unit fail_at raises
RunExporter(name, playlists, fail_at) ==
    /\ epc = name
    /\ fail_at \in 0..Len(UnitsOf(name, playlists))
    /\ LET exp == ExporterFor(name, export_format)
           units == UnitsOf(name, playlists)
           ran == IF fail_at = 0 THEN units ELSE SubSeq(units, 1, fail_at - 1)
           st == RunUnits(exp, ran, [files |-> files, time |-> time, saves |-> saves])
       IN  /\ spc' = "ready"
           /\ exporter' = exp
           /\ files' = st.files
           /\ time' = st.time
           /\ saves' = st.saves
    /\ started' = Append(started, name)
    /\ IF fail_at = 0
       THEN /\ returned' = Append(returned, name)
            /\ epc' = NextPosition(name)
            /\ UNCHANGED failed
       ELSE /\ failed' = Append(failed, name)
            /\ epc' = AfterRaise(name)
            /\ UNCHANGED returned
    /\ UNCHANGED export_format
    /\ UNCHANGED <<retryVars, pagVars, folVars, mergeVars, wrapVars, cliVars>>

\* lines 51-58
ExportProfile(fail_at) == RunExporter("profile", <<>>, fail_at)

\* lines 60-68
ExportPlaylists(playlists, fail_at) == RunExporter("playlists", playlists, fail_at)

\* lines 70-77
ExportLibrary(fail_at) == RunExporter("library", <<>>, fail_at)

\* lines 79-86
ExportFollowing(fail_at) == RunExporter("following", <<>>, fail_at)

\* lines 88-95
ExportHistory(fail_at) == RunExporter("history", <<>>, fail_at)

\* line 115: EXPORT_DIR / f"export_report_{timestamp}.json"
ReportPath(now) ==
    [dir |-> module_globals.main.EXPORT_DIR, stem |-> "export_report", stamp |-> now,
     ext |-> "json"]

\* lines 101-112: the report; the run started at time 0
ExportReport == [export_date |-> 0, export_format |-> export_format, stats |-> returned]

\* lines 97-122: the report is written and returned
WriteReport(ok) ==
    /\ epc = "report"
    /\ IF ok
       THEN /\ files' = DumpTo(files, ReportPath(time), ExportReport)
            /\ time' = time + 1
            /\ epc' = "done"
       ELSE /\ epc' = AfterRaise("report")
            /\ UNCHANGED <<files, time>>
    /\ UNCHANGED <<spc, exporter, saves>>
    /\ UNCHANGED <<export_format, started, returned, failed>>
    /\ UNCHANGED <<retryVars, pagVars, folVars, mergeVars, wrapVars, cliVars>>

\* where an export() may fail: nowhere (0), or at one of its units
FailPoints == 0..Len(UnitsOf("history", <<>>))

InitMain ==
    /\ CliIdle
    /\ epc = "setup"
    /\ export_format \in {"json", "csv"}
    /\ started = <<>>
    /\ returned = <<>>
    /\ failed = <<>>
    /\ WrapIdle
    /\ SinkIdle
    /\ FollowIdle
    /\ MergeIdle
    /\ pc = "idle"
    /\ kwargs = <<>>
    /\ passed = <<>>
    /\ results = <<>>
    /\ response = NoResponse
    /\ requests = <<>>
    /\ served = <<>>
    /\ max_retries = 0
    /\ delay = 0
    /\ backoff_factor = DefaultBackoff
    /\ attempt = 0
    /\ current_delay = FromInt(0)
    /\ rpc = "idle"
    /\ outcome = NoOutcome
    /\ hist = <<>>
    /\ sleeps = <<>>
    /\ log = <<>>

MainNext ==
    \/ \E ok \in BOOLEAN : SetupDirectories(ok)
    \/ \E fail_at \in FailPoints : ExportProfile(fail_at)
    \/ \E playlists \in PlaylistSeqs, fail_at \in FailPoints : ExportPlaylists(playlists, fail_at)
    \/ \E fail_at \in FailPoints : ExportLibrary(fail_at)
    \/ \E fail_at \in FailPoints : ExportFollowing(fail_at)
    \/ \E fail_at \in FailPoints : ExportHistory(fail_at)
    \/ \E ok \in BOOLEAN : WriteReport(ok)

SpecMain == InitMain /\ [][MainNext]_vars

-----------------------------------------------------------------------------
(* cli.main: the command-line entry point.  Init is the process after the  *)
(* imports of cli.py lines 12-19: a .env file in the working directory is  *)
(* already loaded into os.environ, and config.settings is evaluated.       *)

\* the SPOTIFY_* values of the environment the program is started in
EnvironInputs ==
    {<<>>,
     [k \in {"SPOTIFY_CLIENT_ID", "SPOTIFY_CLIENT_SECRET"} |->
         IF k = "SPOTIFY_CLIENT_ID" THEN "env-id" ELSE "env-secret"],
     [k \in {"SPOTIFY_CLIENT_ID", "SPOTIFY_CLIENT_SECRET", "SPOTIFY_REDIRECT_URI"} |->
         IF k = "SPOTIFY_CLIENT_ID" THEN "env-id"
         ELSE IF k = "SPOTIFY_CLIENT_SECRET" THEN "env-secret" ELSE "env-uri"]}

\* the file --env-file may name: missing, or setting id and secret
EnvFileInputs ==
    {NoEnvFile,
     [exists |-> TRUE,
      sets |-> [k \in {"SPOTIFY_CLIENT_ID", "SPOTIFY_CLIENT_SECRET"} |->
                   IF k = "SPOTIFY_CLIENT_ID" THEN "file-id" ELSE "file-secret"]]}

\* cli.py lines 29-71: the command lines; an option not given is None
ArgsInputs ==
    [format : {"json", "csv"},
     output_dir : {None, "out"},
     env_file : {".env", "prod.env"},
     client_id : {None, "cli-id"},
     client_secret : {None, "cli-secret"},
     redirect_uri : {None, "cli-uri"}]

\* bool(x) of an optional string
Truthy(x) == x # None /\ x # ""

\* x or y
Or(x, y) == IF Truthy(x) THEN x ELSE y

\* os.environ[key] = value when the condition holds
SetIf(env, cond, key, value) ==
    IF cond THEN [k \in DOMAIN env \cup {key} |-> IF k = key THEN value ELSE env[k]]
    ELSE env

\* cli.py line 84: dotenv.load_dotenv(file, override=True)
LoadDotenv(env, sets) ==
    [k \in DOMAIN env \cup DOMAIN sets |-> IF k \in DOMAIN sets THEN sets[k] ELSE env[k]]

\* Path(s) of a relative path of one component
PathFrom(s) == <<s>>

\* cli.py lines 124-126: check_requirements(); sys.exit(1) when it fails
CheckRequirements(ok) ==
    /\ cpc = "check"
    /\ cpc' = IF ok THEN "parse" ELSE "exit"
    /\ UNCHANGED <<module_globals, environ, env_file, args, auth_manager>>
    /\ UNCHANGED <<retryVars, pagVars, folVars, mergeVars, sinkVars, mainVars, wrapVars>>

\* cli.py line 129: parse_arguments()
ParseArguments(a) ==
    /\ cpc = "parse"
    /\ args' = a
    /\ cpc' = "setup"
    /\ UNCHANGED <<module_globals, environ, env_file, auth_manager>>
    /\ UNCHANGED <<retryVars, pagVars, folVars, mergeVars, sinkVars, mainVars, wrapVars>>

\* cli.py lines 81-99: setup_environment(args).  "global EXPORT_DIR" names
\* the global of module cli, so line 99 rebinds cli's EXPORT_DIR only
SetupEnvironment ==
    /\ cpc = "setup"
    /\ LET loaded == IF args.env_file # ".env" /\ env_file.exists
                     THEN LoadDotenv(environ, env_file.sets) ELSE environ
           with_id == SetIf(loaded, Truthy(args.client_id), "SPOTIFY_CLIENT_ID", args.client_id)
           with_secret == SetIf(with_id, Truthy(args.client_secret),
                                "SPOTIFY_CLIENT_SECRET", args.client_secret)
       IN  environ' = SetIf(with_secret, Truthy(args.redirect_uri),
                            "SPOTIFY_REDIRECT_URI", args.redirect_uri)
    /\ module_globals' =
          IF Truthy(args.output_dir)
          THEN [module_globals EXCEPT !.cli.EXPORT_DIR = PathFrom(args.output_dir)]
          ELSE module_globals
    /\ cpc' = "auth"
    /\ UNCHANGED <<env_file, args, auth_manager>>
    /\ UNCHANGED <<retryVars, pagVars, folVars, mergeVars, sinkVars, mainVars, wrapVars>>

\* spotify_auth.py lines 46-48: the credentials of a SpotifyAuthManager
\* constructed with the given arguments
Credentials(client_id, client_secret, redirect_uri) ==
    [client_id |-> Or(client_id, module_globals.spotify_auth.SPOTIFY_CLIENT_ID),
     client_secret |-> Or(client_secret, module_globals.spotify_auth.SPOTIFY_CLIENT_SECRET),
     redirect_uri |-> Or(redirect_uri, module_globals.spotify_auth.SPOTIFY_REDIRECT_URI)]

\* cli.py line 137 with spotify_auth.py lines 46-69: SpotifyAuthManager();
\* the ValueError of line 54 is caught at cli.py line 145, which exits
NewAuthManager ==
    /\ cpc = "auth"
    /\ LET self == Credentials(None, None, None)
       IN  IF ~ Truthy(self.client_id) \/ ~ Truthy(self.client_secret)
           THEN /\ cpc' = "exit"
                /\ UNCHANGED auth_manager
           ELSE /\ auth_manager' = self
                /\ cpc' = "authenticate"
    /\ UNCHANGED <<module_globals, environ, env_file, args>>
    /\ UNCHANGED <<retryVars, pagVars, folVars, mergeVars, sinkVars, mainVars, wrapVars>>

\* cli.py line 140: auth_manager.authenticate() returns a client or raises
Authenticate(ok) ==
    /\ cpc = "authenticate"
    /\ cpc' = IF ok THEN "export" ELSE "exit"
    /\ UNCHANGED <<module_globals, environ, env_file, args, auth_manager>>
    /\ UNCHANGED <<retryVars, pagVars, folVars, mergeVars, sinkVars, mainVars, wrapVars>>

\* cli.py line 143: export_all_data(spotify_client, args.format) is entered
CallExport ==
    /\ cpc = "export"
    /\ cpc' = "exporting"
    /\ epc' = "setup"
    /\ export_format' = args.format
    /\ UNCHANGED <<started, returned, failed>>
    /\ UNCHANGED <<module_globals, environ, env_file, args, auth_manager>>
    /\ UNCHANGED <<retryVars, pagVars, folVars, mergeVars, sinkVars, wrapVars>>

\* cli.py lines 143-147: export_all_data returned, or raised and the
\* handler exits with status 1
ExportEnded ==
    /\ cpc = "exporting" /\ epc \in {"done", "aborted"}
    /\ cpc' = IF epc = "done" THEN "done" ELSE "exit"
    /\ UNCHANGED <<module_globals, environ, env_file, args, auth_manager>>
    /\ UNCHANGED <<retryVars, pagVars, folVars, mergeVars, sinkVars, mainVars, wrapVars>>

InitCli ==
    /\ environ \in EnvironInputs
    /\ module_globals = Imported(environ)
    /\ env_file \in EnvFileInputs
    /\ cpc = "check"
    /\ args = <<>>
    /\ auth_manager = NoAuthManager
    /\ MainIdle
    /\ WrapIdle
    /\ SinkIdle
    /\ FollowIdle
    /\ MergeIdle
    /\ pc = "idle"
    /\ kwargs = <<>>
    /\ passed = <<>>
    /\ results = <<>>
    /\ response = NoResponse
    /\ requests = <<>>
    /\ served = <<>>
    /\ max_retries = 0
    /\ delay = 0
    /\ backoff_factor = DefaultBackoff
    /\ attempt = 0
    /\ current_delay = FromInt(0)
    /\ rpc = "idle"
    /\ outcome = NoOutcome
    /\ hist = <<>>
    /\ sleeps = <<>>
    /\ log = <<>>

CliNext ==
    \/ \E ok \in BOOLEAN : CheckRequirements(ok)
    \/ \E a \in ArgsInputs : ParseArguments(a)
    \/ SetupEnvironment
    \/ NewAuthManager
    \/ \E ok \in BOOLEAN : Authenticate(ok)
    \/ CallExport
    \/ MainNext
    \/ ExportEnded

SpecCli == InitCli /\ [][CliNext]_vars

-----------------------------------------------------------------------------
(* Properties of retry_on_api_error.                                       *)

\* the k-th invocation of func failed with a status of the retryable set
TransientAt(k) ==
    hist[k].kind = "SpotifyException" /\ hist[k].http_status \in retry_on_status

\* the first n invocations all failed with a retryable status
AllTransient(n) == \A k \in 1..n : TransientAt(k)

\* the exception carries a Retry-After header
HintSupplied(e) == e.has_headers /\ "Retry-After" \in DOMAIN e.headers

\* the exception carries a Retry-After header that reads as an integer
HintParseable(e) == HintSupplied(e) /\ IsIntLiteral(e.headers["Retry-After"])

\* initial_delay * backoff_factor^(k-1)
BackoffAt(k) == RatMul(FromInt(delay), RatPow(backoff_factor, k - 1))

\* the last invocation of func did not fail with a retryable status
LastNotTransient ==
    /\ Len(hist) >= 1
    /\ hist[Len(hist)].kind # "ok"
    /\ ~ TransientAt(Len(hist))

\* C1 as stated (for max_retries >= 1): after N <= max_retries retryable
\* failures in a row the executor has slept N times and invokes the thunk once more, returning its
\* value if it succeeds; a sleep without a Retry-After hint lasts exactly
\* initial_delay * backoff_factor^(k-1).
C1_AsStated ==
    /\ (max_retries >= 1 /\ Len(hist) <= max_retries /\ AllTransient(Len(hist)))
          => (rpc = "loop" /\ Len(sleeps) = Len(hist))
    /\ (Len(hist) >= 1 /\ hist[Len(hist)].kind = "ok" /\ AllTransient(Len(hist) - 1))
          => (outcome = Returned(hist[Len(hist)].value) /\ Len(sleeps) = Len(hist) - 1)
    /\ \A k \in 1..Len(sleeps) :
          ~ HintSupplied(hist[k]) => sleeps[k] = BackoffAt(k)

\* C1 (amended): after N < max_retries retryable failures in a row the
\* executor has slept N times and invokes the thunk once more; if that
\* invocation succeeds it returns the thunk's value after exactly N sleeps
\* and N+1 invocations; a sleep without a Retry-After hint lasts
\* initial_delay * backoff_factor^(k-1) truncated to whole seconds.
C1_RetryThenSuccess ==
    /\ (Len(hist) < max_retries /\ AllTransient(Len(hist)))
          => (rpc = "loop" /\ Len(sleeps) = Len(hist) /\ attempt = Len(hist))
    /\ (Len(hist) >= 1 /\ hist[Len(hist)].kind = "ok" /\ AllTransient(Len(hist) - 1))
          => (/\ rpc = "done"
              /\ outcome = Returned(hist[Len(hist)].value)
              /\ Len(sleeps) = Len(hist) - 1)
    /\ \A k \in 1..Len(sleeps) :
          ~ HintSupplied(hist[k]) => sleeps[k] = FromInt(RatTrunc(BackoffAt(k)))

\* two unhinted retryable failures, then success, under a fractional backoff
C1_Witness ==
    /\ rpc = "done" /\ outcome.kind = "return"
    /\ max_retries = 3 /\ Len(hist) = 3 /\ Len(sleeps) = 2
    /\ ~ HintSupplied(hist[1]) /\ ~ HintSupplied(hist[2])
    /\ backoff_factor = Rat(3, 2)

\* C2 as stated: after max_retries retryable failures in a row the executor
\* has raised an error carrying the last status and the attempt count, with
\* no sleep after the final failure.
C2_AsStated ==
    (Len(hist) >= 1 /\ Len(hist) = max_retries /\ AllTransient(Len(hist)))
       => (/\ rpc = "done"
           /\ outcome.kind = "raise"
           /\ outcome.exc.http_status = hist[Len(hist)].http_status
           /\ "attempts" \in DOMAIN outcome.exc
           /\ outcome.exc.attempts = max_retries
           /\ Len(sleeps) = max_retries - 1)

\* C2 (amended): after max_retries retryable failures in a row the executor
\* has stopped by re-raising the last failure's own exception (so with the
\* last observed status), has slept max_retries - 1 times (none after the
\* final failure), and the attempt count is in the error log record, not in
\* the exception.
C2_Exhausted ==
    (Len(hist) >= 1 /\ Len(hist) = max_retries /\ AllTransient(Len(hist)))
       => (/\ rpc = "done"
           /\ outcome = Raised(hist[Len(hist)])
           /\ outcome.exc.http_status = hist[Len(hist)].http_status
           /\ DOMAIN outcome.exc = {"kind", "http_status", "has_headers", "headers"}
           /\ Len(sleeps) = max_retries - 1
           /\ log[Len(log)] = LogExhausted(max_retries, hist[Len(hist)])
           /\ ~ ENABLED RetryNext)

\* three retryable failures exhaust max_retries = 3
C2_Witness ==
    /\ max_retries = 3 /\ Len(hist) = 3 /\ AllTransient(3)
    /\ outcome.kind = "raise" /\ Len(sleeps) = 2

\* C3: a failure that is not a retryable status (another status, or a
\* non-API exception) is propagated at once: the executor has stopped by
\* raising exactly that failure, no sleep follows it, and on a first
\* invocation there was one call and no sleep at all.
C3_FatalPropagates ==
    LastNotTransient
       => (/\ rpc = "done"
           /\ outcome = Raised(hist[Len(hist)])
           /\ Len(sleeps) = Len(hist) - 1
           /\ (AllTransient(Len(hist) - 1) /\ (Len(hist) = 1 => sleeps = <<>>))
           /\ ~ ENABLED RetryNext)

\* a non-retryable status on the second attempt, after one retry
C3_Witness ==
    /\ Len(hist) = 2 /\ TransientAt(1)
    /\ hist[2].kind = "SpotifyException" /\ hist[2].http_status = 404
    /\ outcome.kind = "raise"

\* C4 as stated: every wait equals the Retry-After hint when it is present
\* and parseable and the current backoff delay otherwise; after each such
\* failure the thunk is invoked again and the delay has been multiplied by
\* the backoff factor.
C4_AsStated ==
    /\ \A k \in 1..Len(sleeps) :
          sleeps[k] = IF HintParseable(hist[k])
                      THEN FromInt(ParseInt(hist[k].headers["Retry-After"]))
                      ELSE BackoffAt(k)
    /\ (Len(hist) < max_retries /\ AllTransient(Len(hist)))
          => (rpc = "loop" /\ current_delay = BackoffAt(Len(hist) + 1))

-----------------------------------------------------------------------------
(* Properties of paginate.                                                 *)

\* items(P): what a page contributes
ItemsOf(page) == IF page.has_items THEN page.items ELSE <<>>

\* items(P1) ++ ... ++ items(Pk)
RECURSIVE ConcatItems(_)
ConcatItems(pages) ==
    IF pages = <<>> THEN <<>>
    ELSE ItemsOf(Head(pages)) \o ConcatItems(Tail(pages))

\* the remote calls that succeeded, in order
OkRequests == SelectSeq(requests, LAMBDA q : q.ok)

\* C5: when paginate returns, the pages received form a chain P1..Pk in
\* which exactly the last has no next link, the result is
\* items(P1) ++ ... ++ items(Pk) in order, and k fetches succeeded: the
\* initial call, then one next call per link followed; with no failed call
\* these are all the calls made.
C5_Concatenation ==
    pc = "done" =>
       (/\ Len(served) >= 1
        /\ \A i \in 1..Len(served) : (served[i].next # 0) <=> (i < Len(served))
        /\ results = ConcatItems(served)
        /\ Len(OkRequests) = Len(served)
        /\ OkRequests[1].op = "method"
        /\ \A i \in 2..Len(OkRequests) :
              OkRequests[i].op = "next" /\ OkRequests[i].page = served[i - 1].next
        /\ ((\A i \in 1..Len(requests) : requests[i].ok) => Len(requests) = Len(served)))

\* pages [a, b] (next), [a] (no next), no failed call: the result is [a, b, a]
C5_Witness ==
    /\ pc = "done"
    /\ Len(served) = 2 /\ Len(requests) = 2
    /\ served[1].items = <<"a", "b">> /\ served[2].items = <<"a">>
    /\ results = <<"a", "b", "a">>

\* number of pages at the end of the pages received so far that carry an
\* items list that is empty together with a next link
RECURSIVE EmptyRun(_)
EmptyRun(pages) ==
    IF pages = <<>> THEN 0
    ELSE LET last == pages[Len(pages)] IN
         IF last.has_items /\ last.items = <<>> /\ last.next # 0
         THEN 1 + EmptyRun(SubSeq(pages, 1, Len(pages) - 1))
         ELSE 0

\* C8 as stated: the traversal ends after a bounded number of consecutive
\* pages with empty items and a next link: once two such pages in a row
\* have been received (one retry-empty cycle), paginate issues no further
\* fetch.
C8_AsStated ==
    EmptyRun(served) >= 2 => ~ (pc = "next" /\ rpc = "loop")

-----------------------------------------------------------------------------
(* Properties of get_followed_artists.                                     *)

\* the items of all responses, in order
RECURSIVE ConcatNested(_)
ConcatNested(pages) ==
    IF pages = <<>> THEN <<>>
    ELSE (IF Head(pages).has_artists /\ Head(pages).has_items
          THEN Head(pages).items ELSE <<>>) \o ConcatNested(Tail(pages))

\* the response has at least one item and signals more pages
MoreAfter(page) ==
    page.has_artists /\ page.has_items /\ page.items # <<>> /\ page.next

\* C6: the first call passes after unset; after every response with at
\* least one item and a next link the following call passes after = the id
\* of that response's last item; the artists collected are the
\* concatenation of all responses' artists.items, in order.
C6_Cursor ==
    /\ Len(fcalls) >= 1 => fcalls[1].after = "None"
    /\ \A i \in 1..Len(fpages) :
          MoreAfter(fpages[i]) =>
             IF i < Len(fcalls)
             THEN fcalls[i + 1].after = fpages[i].items[Len(fpages[i].items)].id
             ELSE fpc = "loop" /\ after = fpages[i].items[Len(fpages[i].items)].id
    /\ artists = ConcatNested(fpages)

\* responses [x, y] (more) then [z] (no more): after = y, result [x, y, z]
C6_Witness ==
    /\ fpc = "done" /\ Len(fcalls) = 2
    /\ fpages[1].items = <<Artist("x"), Artist("y")>> /\ fpages[1].next
    /\ fpages[2].items = <<Artist("z")>> /\ ~ fpages[2].next
    /\ fcalls[2].after = "y"
    /\ artists = <<Artist("x"), Artist("y"), Artist("z")>>

\* C7: a response without items, with or without a next link, ends the
\* traversal with no further call; an empty first response gives [] after
\* exactly one call.
C7_EmptyStops ==
    \A i \in 1..Len(fpages) :
       ~ (fpages[i].has_artists /\ fpages[i].has_items /\ fpages[i].items # <<>>)
          => (/\ i = Len(fpages)
              /\ Len(fcalls) = i
              /\ fpc = "done"
              /\ ~ ENABLED FollowNext
              /\ (i = 1 => artists = <<>>))

\* an empty page that signals more pages, after a page with items
C7_Witness ==
    /\ Len(fpages) = 2 /\ fpc = "done"
    /\ fpages[2].has_items /\ fpages[2].items = <<>> /\ fpages[2].next

-----------------------------------------------------------------------------
(* Properties of merge_json_data.                                          *)

\* both records carry a data sequence
BothLists ==
    /\ "data" \in DOMAIN existing_data /\ "data" \in DOMAIN new_data
    /\ existing_data.data.list /\ new_data.data.list

\* the new item has field f with the value some existing item has for it
Collides(item, f) ==
    /\ f \in DOMAIN item
    /\ \E i \in 1..Len(existing_data.data.items) :
          /\ f \in DOMAIN existing_data.data.items[i]
          /\ existing_data.data.items[i][f] = item[f]

\* C9: with two data sequences and an identifier field F found in the
\* existing data, the merged data is the existing sequence, unchanged and
\* in order, followed by exactly the new items, in order, that lack F or
\* whose F value no existing item has; no existing item is replaced.
C9_DedupById ==
    (mpc = "done" /\ BothLists /\ id_field # "None")
       => (/\ merged.data.list
           /\ SubSeq(merged.data.items, 1, Len(existing_data.data.items))
                 = existing_data.data.items
           /\ SubSeq(merged.data.items, Len(existing_data.data.items) + 1,
                     Len(merged.data.items))
                 = SelectSeq(new_data.data.items, LAMBDA item : ~ Collides(item, id_field)))

\* existing [{id:1, v:a}], new [{id:1, v:b}, {id:2, ...}]: the first stays,
\* the colliding new item is dropped, the other is appended
C9_Witness ==
    /\ mpc = "done" /\ BothLists /\ id_field = "id"
    /\ existing_data.data.items = <<[id |-> "1", v |-> "a"]>>
    /\ new_data.data.items = <<[id |-> "1", v |-> "b"], [id |-> "2", uri |-> "u1", v |-> "c"]>>
    /\ merged.data.items = <<[id |-> "1", v |-> "a"], [id |-> "2", uri |-> "u1", v |-> "c"]>>

\* some existing item has field f
SomeItemHas(f) ==
    \E i \in 1..Len(existing_data.data.items) : f \in DOMAIN existing_data.data.items[i]

HasIdentifier(i) ==
    \E f \in {"id", "uri", "href"} : f \in DOMAIN existing_data.data.items[i]

C11_PlainConcat ==
    (mpc = "done" /\ BothLists
        /\ \A i \in 1..Len(existing_data.data.items) : ~ HasIdentifier(i))
       => (/\ merged.data.list
           /\ Len(merged.data.items)
                 = Len(existing_data.data.items) + Len(new_data.data.items)
           /\ \A i \in 1..Len(existing_data.data.items) :
                 merged.data.items[i] = existing_data.data.items[i]
           /\ \A i \in 1..Len(new_data.data.items) :
                 merged.data.items[Len(existing_data.data.items) + i]
                    = new_data.data.items[i])

\* existing [{v:a}], new [{v:a}, {v:a}]: all three items are kept
C11_Witness ==
    /\ mpc = "done" /\ BothLists /\ id_field = "None"
    /\ existing_data.data.items = <<[v |-> "a"]>>
    /\ new_data.data.items = <<[v |-> "a"], [v |-> "a"]>>
    /\ Len(merged.data.items) = 3

\* both records have the data key and one of the two values is no sequence
OneNotList ==
    /\ "data" \in DOMAIN existing_data /\ "data" \in DOMAIN new_data
    /\ ~ (existing_data.data.list /\ new_data.data.list)

\* C12: when both records have data and at least one of the two is not a
\* sequence, the merged data is the new record's data, and nothing of the
\* existing data is in it.
C12_NewWins ==
    (mpc = "done" /\ OneNotList) => merged.data = new_data.data

\* an existing mapping and a new sequence; an existing sequence and a new
\* mapping is the other case the formula covers
C12_Witness ==
    /\ mpc = "done" /\ OneNotList
    /\ ~ existing_data.data.list /\ new_data.data.list
    /\ new_data.data.items # <<>>
    /\ merged.data = new_data.data /\ merged.data # existing_data.data

\* both records have the metadata key
BothMetadata == "metadata" \in DOMAIN existing_data /\ "metadata" \in DOMAIN new_data

\* the merged metadata has the fields of the existing metadata and the two
\* dates, and every field but the two dates has the existing record's value
KeepsExistingFields ==
    /\ DOMAIN merged.metadata
          = DOMAIN existing_data.metadata \cup {"update_date", "previous_export_date"}
    /\ \A k \in DOMAIN existing_data.metadata \ {"update_date", "previous_export_date"} :
          merged.metadata[k] = existing_data.metadata[k]

\* C13: with metadata on both sides, update_date is the new record's
\* export_date and previous_export_date is the existing record's
\* export_date, and every other field, export_date and export_type
\* included, keeps the existing record's value.  Metadata that is not of an
\* Export Record and has no export_date is covered too: update_date is
\* then the time of the call, previous_export_date is null.
C13_MetadataDates ==
    (mpc = "done" /\ BothMetadata)
       => (/\ IF "export_date" \in DOMAIN new_data.metadata
              THEN merged.metadata.update_date = new_data.metadata.export_date
              ELSE merged.metadata.update_date \in Clock
           /\ merged.metadata.previous_export_date
                 = Get(existing_data.metadata, "export_date", "None")
           /\ KeepsExistingFields)

\* two records as save_to_json writes them
C13_Witness ==
    /\ mpc = "done" /\ BothMetadata
    /\ existing_data.metadata = [export_date |-> "t1", export_type |-> "PlaylistExporter"]
    /\ new_data.metadata = [export_date |-> "t2", export_type |-> "LibraryExporter"]
    /\ merged.metadata = [export_date |-> "t1", export_type |-> "PlaylistExporter",
                          update_date |-> "t2", previous_export_date |-> "t1"]

\* C14: a call of merge_json_data leaves both input records as they were,
\* metadata mappings and data sequences alike, and leaves the file store
\* as it was.
C14_InputsUnchanged ==
    [][(mpc = "call" /\ mpc' = "done")
          => (existing_data' = existing_data /\ new_data' = new_data /\ files' = files)]_vars

\* a call that set the two dates and appended a new item
C14_Witness ==
    /\ mpc = "done" /\ BothLists /\ BothMetadata /\ id_field # "None"
    /\ Len(merged.data.items) > Len(existing_data.data.items)
    /\ "update_date" \in DOMAIN merged.metadata
    /\ "update_date" \notin DOMAIN existing_data.metadata

-----------------------------------------------------------------------------
(* Properties of save_data.                                                *)

\* the file store as the i-th save_data call left it
FilesAfter(i) == IF i = Len(saves) THEN files ELSE saves[i + 1].before

\* the cell of row r of the table under the column named col; the empty
\* cell when the table has no such column
TableCell(table, r, col) ==
    IF \E j \in 1..Len(table.columns) : table.columns[j] = col
    THEN table.rows[r][CHOOSE j \in 1..Len(table.columns) : table.columns[j] = col]
    ELSE [t |-> "empty"]

\* the i-th call was given a mapping with a mapping among its values
NestedMappingGiven(i) ==
    /\ saves[i].data.t = "dict"
    /\ \E e \in 1..Len(saves[i].data.m) : saves[i].data.m[e].v.t = "dict"

\* C15 as stated: in CSV mode, for a mapping with at least one
\* mapping-valued entry, the table has one row per top-level key, in key
\* order; the key column of each row holds that top-level key, the fields
\* of a nested mapping are spread into the row and a scalar is in the value
\* column, whatever the field names of the nested mappings.
C15_AsStated ==
    \A i \in 1..Len(saves) :
       (exporter.export_format = "csv" /\ NestedMappingGiven(i))
          => LET table == FilesAfter(i)[saves[i].path]
                 top == saves[i].data.m
             IN  /\ Len(table.rows) = Len(top)
                 /\ \A r \in 1..Len(top) :
                       /\ TableCell(table, r, "key") = Str(top[r].k)
                       /\ top[r].v.t = "dict" =>
                             \A e \in 1..Len(top[r].v.m) :
                                top[r].v.m[e].k # "key" =>
                                   TableCell(table, r, top[r].v.m[e].k) = top[r].v.m[e].v
                       /\ top[r].v.t = "str" => TableCell(table, r, "value") = top[r].v

\* C16: in JSON mode every save_data call leaves at the returned path a
\* file holding the one document {metadata: {export_date, export_type},
\* data: the Result Set} and creates or changes no other file; a second
\* call with the same Result Set and the same name returns the same path,
\* adds no file, and its document differs from the first call's in
\* metadata.export_date at most.
C16_JsonIdempotent ==
    \A i \in 1..Len(saves) :
       exporter.export_format # "csv"
          => LET path == saves[i].path
                 stored == FilesAfter(i)
             IN  /\ DOMAIN stored = DOMAIN saves[i].before \cup {path}
                 /\ \A q \in DOMAIN saves[i].before : q # path => stored[q] = saves[i].before[q]
                 /\ Len(stored[path].docs) = 1
                 /\ DOMAIN stored[path].docs[1] = {"metadata", "data"}
                 /\ DOMAIN stored[path].docs[1].metadata = {"export_date", "export_type"}
                 /\ stored[path].docs[1].metadata.export_type = exporter.cls
                 /\ stored[path].docs[1].data = saves[i].data
                 /\ (i > 1 /\ saves[i - 1].data = saves[i].data
                           /\ saves[i - 1].filename = saves[i].filename)
                       => /\ saves[i - 1].path = path
                          /\ DOMAIN stored = DOMAIN saves[i].before
                          /\ stored[path].docs[1].data = saves[i].before[path].docs[1].data
                          /\ stored[path].docs[1].metadata.export_type
                                = saves[i].before[path].docs[1].metadata.export_type

\* the same non-empty Result Set written twice under the same name
C16_Witness ==
    /\ Len(saves) = 2 /\ exporter.export_format = "json"
    /\ saves[1].data = List(<<Item1, Item2>>) /\ saves[2].data = saves[1].data
    /\ saves[1].filename = saves[2].filename
    /\ DOMAIN files = {saves[2].path}
    /\ files[saves[2].path].docs[1].metadata.export_date
          # saves[2].before[saves[2].path].docs[1].metadata.export_date

-----------------------------------------------------------------------------
(* Properties of export_all_data.                                          *)

\* p is a prefix of q
IsPrefix(p, q) == Len(p) <= Len(q) /\ SubSeq(q, 1, Len(p)) = p

\* an export_report file is in the file store
ReportWritten == \E q \in DOMAIN files : q.stem = "export_report"

\* C17: the exporters run in the order profile, playlists, library,
\* following, history; once one of them has raised the run is aborted: it
\* is the last exporter started and no report file is written; a report
\* file is written only after all five have returned.
C17_OrderAndAbort ==
    /\ IsPrefix(started, ExporterOrder)
    /\ IsPrefix(returned, started)
    /\ failed # <<>> =>
          /\ epc = "aborted"
          /\ failed = <<started[Len(started)]>>
          /\ Len(returned) = Len(started) - 1
    /\ epc = "aborted" => ~ ReportWritten
    /\ ReportWritten => (returned = ExporterOrder /\ epc = "done")

\* the library export raised after its first file was written
C17_Witness ==
    /\ epc = "aborted" /\ failed = <<"library">>
    /\ started = <<"profile", "playlists", "library">>
    /\ \E q \in DOMAIN files : q.stem = "saved_tracks"
    /\ ~ \E q \in DOMAIN files : q.stem = "saved_albums"

-----------------------------------------------------------------------------
(* Properties of the composition: exporters, paginate, retry.              *)

\* the number of failed calls at the end of a sequence of calls
RECURSIVE FailedRun(_)
FailedRun(calls) ==
    IF calls = <<>> \/ calls[Len(calls)].ok THEN 0
    ELSE 1 + FailedRun(SubSeq(calls, 1, Len(calls) - 1))

\* C18 as stated, for the followed-artists cursor fetch: a failure with a
\* status in {429, 500, 502, 503, 504} is retried while attempts remain, so
\* such a failure leaves the export only after API_RETRY_ATTEMPTS failed
\* calls in a row.
C18_AsStated ==
    (fpc = "raised" /\ IsRetryable(fexc.exc)) => FailedRun(fcalls) >= API_RETRY_ATTEMPTS

\* C19 as stated, for get_playlist_tracks: when the remote operation fails
\* on every invocation, it is invoked at most max_retries (3) times before
\* the failure reaches the caller.
C19_AsStated ==
    (\A i \in 1..Len(requests) : ~ requests[i].ok) => Len(requests) <= API_RETRY_ATTEMPTS

\* the number of items of the pages that have an items key
RECURSIVE ItemCount(_)
ItemCount(pages) ==
    IF pages = <<>> THEN 0
    ELSE (IF Head(pages).has_items THEN Len(Head(pages).items) ELSE 0) + ItemCount(Tail(pages))

\* C20: a page without an items key is no error and contributes nothing.
\* paginate raises only when a fetch failed; a first page with neither an
\* items key nor a next link gives [] after exactly one successful call
\* (the only call, when none failed); and a page without an items key that
\* has a next link is followed like any other: the traversal does not end
\* on it, and the result holds the items of the other pages only.
C20_NoItemsKey ==
    /\ pc = "raised" => ~ requests[Len(requests)].ok
    /\ (pc = "done" /\ ~ served[1].has_items /\ served[1].next = 0)
          => (/\ results = <<>>
              /\ Len(served) = 1
              /\ Len(SelectSeq(requests, LAMBDA q : q.ok)) = 1
              /\ requests[Len(requests)].ok
              /\ ((\A i \in 1..Len(requests) : requests[i].ok) => Len(requests) = 1))
    /\ pc = "done"
          => (/\ \A i \in 1..Len(served) :
                    (~ served[i].has_items /\ served[i].next # 0)
                       => (i < Len(served) /\ Len(requests) > i)
              /\ Len(results) = ItemCount(served))

\* the first page has neither items nor next: [] after one call
C20_Witness ==
    /\ pc = "done"
    /\ served = <<[has_items |-> FALSE, items |-> <<>>, next |-> 0]>>
    /\ Len(requests) = 1
    /\ results = <<>>

-----------------------------------------------------------------------------
(* Properties of the parameters paginate forwards.                         *)

\* the keyword arguments of the initial remote call
FirstCallKwargs == requests[1].kwargs

\* C21 as stated: the initial remote call receives limit = 50 exactly when
\* the caller passed no limit, a passed limit is forwarded unchanged, and
\* so is every other parameter.
C21_AsStated ==
    (pc # "idle" /\ Len(requests) >= 1) =>
       (/\ (FirstCallKwargs["limit"] = DEFAULT_LIMIT) <=> ("limit" \notin DOMAIN passed)
        /\ \A k \in DOMAIN passed : FirstCallKwargs[k] = passed[k])

\* C21: the initial remote call receives limit = 50 when the caller passed
\* no limit; when the caller passed a limit, that value is forwarded
\* unchanged (50 included); every other parameter the caller passed is
\* forwarded unchanged and nothing else is added.
C21_LimitForwarded ==
    (pc # "idle" /\ Len(requests) >= 1) =>
       (/\ DOMAIN FirstCallKwargs = DOMAIN passed \cup {"limit"}
        /\ ("limit" \notin DOMAIN passed) => FirstCallKwargs["limit"] = DEFAULT_LIMIT
        /\ \A k \in DOMAIN passed : FirstCallKwargs[k] = passed[k])

\* a caller that passed a filter and no limit: the call carries both
C21_Witness ==
    /\ Len(requests) >= 1
    /\ DOMAIN passed = {"market"}
    /\ FirstCallKwargs["limit"] = DEFAULT_LIMIT
    /\ FirstCallKwargs["market"] = passed["market"]

-----------------------------------------------------------------------------
(* Properties of the command line.                                         *)

\* export_all_data was entered from cli.main with --output-dir given
OutputDirGiven ==
    /\ cpc \in {"exporting", "done", "exit"}
    /\ "output_dir" \in DOMAIN args
    /\ Truthy(args.output_dir)

\* C22 as stated: started with --output-dir PATH, every export file of the
\* run and the export_report file are written under PATH.
C22_AsStated ==
    OutputDirGiven =>
       \A path \in DOMAIN files : IsPrefix(PathFrom(args.output_dir), path.dir)

\* a SpotifyAuthManager was constructed after setup_environment
Constructed == cpc \in {"authenticate", "export", "exporting", "done", "exit"}
               /\ auth_manager # NoAuthManager

\* the value --env-file supplies for a key, None when it supplies none
FromEnvFile(key) ==
    IF args.env_file # ".env" /\ env_file.exists /\ key \in DOMAIN env_file.sets
    THEN env_file.sets[key] ELSE None

\* the value the command line supplies: the option, else the --env-file value
Supplied(option, key) == Or(option, FromEnvFile(key))

\* C23 as stated: a value given with --client-id, --client-secret or
\* --redirect-uri, or loaded from the --env-file file, is the one the
\* SpotifyAuthManager constructed after setup_environment authenticates
\* with, whatever the environment held at program start.
C23_AsStated ==
    Constructed =>
       (/\ Truthy(Supplied(args.client_id, "SPOTIFY_CLIENT_ID")) =>
               auth_manager.client_id = Supplied(args.client_id, "SPOTIFY_CLIENT_ID")
        /\ Truthy(Supplied(args.client_secret, "SPOTIFY_CLIENT_SECRET")) =>
               auth_manager.client_secret = Supplied(args.client_secret, "SPOTIFY_CLIENT_SECRET")
        /\ Truthy(Supplied(args.redirect_uri, "SPOTIFY_REDIRECT_URI")) =>
               auth_manager.redirect_uri = Supplied(args.redirect_uri, "SPOTIFY_REDIRECT_URI"))

-----------------------------------------------------------------------------
(* Properties of paginate under failures between the pages.                *)

\* the page a fetch asks for after the first i remote calls
PageAfter(i) ==
    LET got == Len(SelectSeq(SubSeq(requests, 1, i), LAMBDA q : q.ok))
    IN  IF got = 0 THEN 1 ELSE served[got].next

\* the invocations of the running page fetch all failed transiently
FetchAllTransient == AllTransient(Len(hist))

\* the running page fetch used up its budget
FetchExhausted == Len(hist) = API_RETRY_ATTEMPTS /\ FetchAllTransient

\* C24: every page fetch of paginate runs on a retry budget and a delay
\* of its own (attempts and backoff count the failures of this fetch
\* only); every remote call asks for the continuation of the last page
\* received, so a retried fetch asks for the same page again; a run that
\* returns has received pages 1..k once each and returns their items in
\* order; paginate raises only when a fetch failed fatally or used up its
\* budget of max_retries transient failures in a row, and a fetch that
\* used up its budget makes paginate raise, never return.
C24_FreshBudgetPerPage ==
    (pc # "idle") =>
       (/\ (pc \in {"first", "next"} /\ rpc = "loop") =>
               (/\ max_retries = API_RETRY_ATTEMPTS
                /\ attempt = Len(hist)
                /\ FetchAllTransient
                /\ Len(sleeps) = Len(hist)
                /\ current_delay = RatMul(FromInt(API_RETRY_DELAY),
                                          RatPow(DefaultBackoff, Len(hist))))
        /\ \A i \in 1..Len(requests) :
               /\ requests[i].page = PageAfter(i - 1)
               /\ (requests[i].op = "method") <=> (PageAfter(i - 1) = 1)
        /\ (pc = "done") =>
               (/\ results = ConcatItems(served)
                /\ Len(OkRequests) = Len(served)
                /\ \A i \in 1..Len(OkRequests) : OkRequests[i].page = i
                /\ served[Len(served)].next = 0
                /\ outcome.kind = "return")
        /\ (pc = "raised") =>
               (/\ outcome.kind = "raise"
                /\ hist # <<>> /\ hist[Len(hist)] = outcome.exc
                /\ FetchExhausted \/ ~ TransientAt(Len(hist)))
        /\ FetchExhausted => (outcome.kind = "raise" /\ pc # "done"))

\* page 1 fails once and is fetched again, page 2 fails twice and is
\* fetched again, and paginate returns both pages' items
C24_Witness ==
    /\ pc = "done"
    /\ Len(requests) = 5
    /\ ~ requests[1].ok /\ requests[2].ok
    /\ ~ requests[3].ok /\ ~ requests[4].ok /\ requests[5].ok
    /\ requests[3].page = 2 /\ requests[4].page = 2 /\ requests[5].page = 2
    /\ results = <<"a", "b", "a">>

-----------------------------------------------------------------------------
(* Properties of every run of retry_on_api_error.                          *)

\* the run returned what an invocation of the thunk returned
ReturnedThunkValue ==
    /\ outcome.kind = "return"
    /\ hist # <<>>
    /\ hist[Len(hist)] = Ok(outcome.value)

\* C25 as stated: for every max_retries >= 0 a run ends by returning the
\* value of a successful thunk invocation or by raising, the thunk is
\* invoked at least once and at most max_retries times, and the sleeps
\* number the invocations minus one.
C25_AsStated ==
    (pc = "idle" /\ rpc = "done") =>
       (/\ ReturnedThunkValue \/ outcome.kind = "raise"
        /\ Len(hist) >= 1
        /\ Len(hist) <= max_retries
        /\ Len(sleeps) = Len(hist) - 1)

-----------------------------------------------------------------------------
(* Properties of merging twice.                                            *)

\* every item of the sequence carries the field id
AllCarryId(items) == \A i \in 1..Len(items) : "id" \in DOMAIN items[i]

\* the ids that occur in the sequence
IdsOf(items) == {items[i].id : i \in {j \in 1..Len(items) : "id" \in DOMAIN items[j]}}

\* both data sequences are made of items that carry an id
BothCarryId ==
    /\ AllCarryId(existing_data.data.items)
    /\ AllCarryId(new_data.data.items)

\* C26: when every item of the existing and of the new data sequence
\* carries an id, the merged data contains every id that occurs in either,
\* and merging the same new record into the result once more returns data
\* equal to that result: merge(merge(E, N), N).data = merge(E, N).data.
C26_RemergeIdempotent ==
    /\ (mpc = "done" /\ BothCarryId) =>
          IdsOf(merged.data.items) =
             IdsOf(existing_data.data.items) \cup IdsOf(new_data.data.items)
    /\ (mpc = "redone" /\ BothCarryId) =>
          (/\ merged.data = existing_data.data
           /\ IdsOf(new_data.data.items) \subseteq IdsOf(merged.data.items))

\* E = [{id:1, v:a}], N = [{id:1, v:b}, {id:2, ...}]: the first merge
\* appended the item with id 2, the second merge appended nothing
C26_Witness ==
    /\ mpc = "redone"
    /\ new_data.data.items = <<[id |-> "1", v |-> "b"], [id |-> "2", uri |-> "u1", v |-> "c"]>>
    /\ existing_data.data.items = <<[id |-> "1", v |-> "a"], [id |-> "2", uri |-> "u1", v |-> "c"]>>
    /\ merged.data.items = existing_data.data.items

=============================================================================
